---- MODULE Spec2Model ----
(***************************************************************************)
(* A model of memorex (github.com/jayzes/memorex): the keyframe selector   *)
(* of internal/video, the whisper output parser of internal/audio and the  *)
(* pipeline of cmd/memorex.                                                *)
(*                                                                         *)
(* Durations are integers in milliseconds.  Similarity thresholds are      *)
(* integers in thousandths (850 is 0.85).  A decoded, resized, grayscale   *)
(* frame is a tuple of luminance levels 0, 1, 2 standing for the values    *)
(* 0, 0.5 and 1.0.  normalizedCrossCorrelation works in float64: what it   *)
(* returns is its exact value give or take a rounding error, and the side  *)
(* of the exact value it falls on depends on the two vectors and on the    *)
(* build (Go lets a compiler fuse x*y + z, which amd64 does not do and     *)
(* arm64 does).  A score is kept here as the exact value and that side;    *)
(* the side shows in a comparison only when the exact value equals the     *)
(* threshold.                                                              *)
(***************************************************************************)
EXTENDS Integers, Sequences, FiniteSets, TLC

VARIABLES
    \* internal/video: DetectKeyframes called on a frame list
    frames,      \* the []Frame given to DetectKeyframes
    files,       \* the scratch directory: file stem -> image content
    runs,        \* threshold -> what DetectKeyframes returned for it
    fpu,         \* the build's float64 arithmetic: the rounding of each score
    \* internal/audio: runWhisper
    wIn,         \* what the recognizer process does: exit, stdout, output file
    wOut,        \* what runWhisper returned, once it has
    \* cmd/memorex: run (its frames are the variable frames, the scratch
    \* directory's files the variable files)
    pc,          \* the stage run is about to start, "done" once it returned
    opts,        \* the command line flags
    duration,    \* what GetDuration gave, 0 when it failed
    scratch,     \* the memorex-frames-* directory: "none", "exists", "removed"
    keyframes,   \* run's keyframes
    segments,    \* run's segments
    outDir,      \* the <output>_frames directory
    report,      \* the markdown report, once written
    stages,      \* the stages run has started, in order
    runErr,      \* what run returned
    \* internal/video, internal/audio: one extraction by the decoder process
    ext,         \* the call, the decoder, its stdout pipe, the progress reader
    \* internal/audio: downloadModel, by several processes at once
    dl,          \* the model directory and each download's position
    \* internal/output: WriteMarkdown and EstimateTokens
    md,          \* the Result given and what was written and estimated
    \* internal/video: normalizedCrossCorrelation called on two vectors
    sc,          \* the two vectors and the score returned, once it has
    \* internal/ui: one Step and the goroutines that call it
    st           \* the Step's fields, what it rendered, each caller's position

detectVars == <<frames, files, runs, fpu>>
whisperVars == <<wIn, wOut>>
runVars == <<pc, opts, duration, scratch, keyframes, segments, outDir, report, stages, runErr>>
extractVars == <<ext>>
downloadVars == <<dl>>
outputVars == <<md>>
scoreVars == <<sc>>
stepVars == <<st>>
moreVars == <<sc, st>>
otherVars == <<ext, dl, md, sc, st>>
vars == <<frames, files, runs, fpu, wIn, wOut,
          pc, opts, duration, scratch, keyframes, segments, outDir, report, stages, runErr,
          ext, dl, md, sc, st>>

----------------------------------------------------------------------------
(* Bounds *)

MaxFrames == 4     \* frames in a list given to DetectKeyframes
MaxRuns == 2       \* calls of DetectKeyframes on one frame list
MaxLines == 3      \* lines the recognizer prints
MaxRunFrames == 3  \* frames the decoder writes in a run of the pipeline
MaxSegments == 2   \* segments in a Result given to WriteMarkdown
MaxKeyframes == 2  \* keyframes in a Result given to WriteMarkdown
MaxDownloads == 3  \* executions of downloadModel at the same time
MaxTempNames == 1  \* names os.CreateTemp can give a whisper-model-*.tmp file
ModelChunks == 1   \* reads it takes to get the whole response body
MaxMarkers == 3    \* lines the decoder writes to its progress pipe
PipeLines == 2     \* lines the pipe holds before a write to it blocks
MaxVector == 3     \* values in a vector given to normalizedCrossCorrelation
MaxUpdates == 3    \* calls of Update on one Step

----------------------------------------------------------------------------
(* Generic helpers *)

RECURSIVE SeqsUpTo(_, _)
SeqsUpTo(S, n) ==
    IF n = 0 THEN {<<>>}
    ELSE LET shorter == SeqsUpTo(S, n - 1)
         IN shorter \cup {Append(s, x) : s \in {t \in shorter : Len(t) = n - 1}, x \in S}

RECURSIVE SumSeq(_)
SumSeq(s) == IF s = <<>> THEN 0 ELSE s[1] + SumSeq(Tail(s))

RECURSIVE SetToSortedSeq(_)
SetToSortedSeq(S) ==
    IF S = {} THEN <<>>
    ELSE LET m == CHOOSE x \in S : \A y \in S : x <= y
         IN <<m>> \o SetToSortedSeq(S \ {m})

----------------------------------------------------------------------------
(* internal/video: frames and the similarity score *)

\* What a frame file can hold: a picture (its resized grayscale vector) or
\* bytes that do not decode.
Picture(gray) == [decodes |-> TRUE, gray |-> gray]
Corrupt == [decodes |-> FALSE, gray |-> <<>>]
FlatDark == Picture(<<0, 0, 0>>)
Ramp == Picture(<<0, 1, 2>>)
StepImg == Picture(<<0, 1, 1>>)
Valley == Picture(<<1, 0, 1>>)
Images == {FlatDark, Ramp, StepImg, Valley, Corrupt}

\* -t values, in thousandths
DefaultThreshold == 850
Thresholds == {0, DefaultThreshold, 900, 1000}

\* Frame{Path, Index, Timestamp} as ExtractFrames builds it from the file
\* NNNN.png: Path is the file (named by its stem), Timestamp (Index-1) s.
Frame(index) == [Path |-> index, Index |-> index, Timestamp |-> (index - 1) * 1000]

\* Keyframe{Path, Index, Timestamp} copied from a Frame
Keyframe(f) == [Path |-> f.Path, Index |-> f.Index, Timestamp |-> f.Timestamp]

\* loadAndProcessFrame: open, decode, resize, grayscale.
loadAndProcessFrame(path, fs) ==
    IF path \notin DOMAIN fs THEN [err |-> "open", gray |-> <<>>]
    ELSE IF ~fs[path].decodes THEN [err |-> "decode", gray |-> <<>>]
    ELSE [err |-> "nil", gray |-> fs[path].gray]

\* A score is the float64 the code computed: its exact value num / sqrt(den2)
\* and round, where the float64 fell: -1 below the exact value, 0 on the
\* float64 nearest to it, 1 above.  Zero and One are the constants 0 and 1.0 the code returns
\* in the degenerate cases.
ScoreZero == [num |-> 0, den2 |-> 1, round |-> 0]
ScoreOne == [num |-> 1, den2 |-> 1, round |-> 0]
Directions == {-1, 0, 1}

\* What the float64 arithmetic of the build does to the score of a and b;
\* rounding is a function from pairs of vectors to Directions, and on a pair
\* it does not hold the float64 is the exact value.
NoRounding == [pair \in {} |-> 0]
RoundingOf(rounding, a, b) ==
    IF <<a, b>> \in DOMAIN rounding THEN rounding[<<a, b>>] ELSE 0

\* The deviations from the mean, times n: n*a[i] - sum(a)
Deviations(a) ==
    LET sumA == SumSeq(a)
    IN [i \in 1..Len(a) |-> Len(a) * a[i] - sumA]

\* Mutant of normalizedCrossCorrelation: two vectors without variance score
\* 0, as empty ones do.
normalizedCrossCorrelationFlatZero(a, b, rounding) ==
    IF Len(a) # Len(b) \/ Len(a) = 0 THEN ScoreZero
    ELSE LET da == Deviations(a)
             db == Deviations(b)
             sumProduct == SumSeq([i \in 1..Len(a) |-> da[i] * db[i]])
             sumSqA == SumSeq([i \in 1..Len(a) |-> da[i] * da[i]])
             sumSqB == SumSeq([i \in 1..Len(a) |-> db[i] * db[i]])
         IN IF sumSqA = 0 /\ sumSqB = 0 THEN ScoreZero
            ELSE IF sumSqA = 0 \/ sumSqB = 0 THEN ScoreOne
            ELSE [num |-> sumProduct, den2 |-> sumSqA * sumSqB,
                  round |-> RoundingOf(rounding, a, b)]
\* normalizedCrossCorrelation(a, b): 0 for no or unequal lengths, 1.0 when one
\* of the standard deviations is (next to) zero, else
\* sumProduct / (n * stdA * stdB) as the float64 arithmetic gives it.
normalizedCrossCorrelation(a, b, rounding) ==
    IF Len(a) # Len(b) \/ Len(a) = 0 THEN ScoreZero
    ELSE LET da == Deviations(a)
             db == Deviations(b)
             sumProduct == SumSeq([i \in 1..Len(a) |-> da[i] * db[i]])
             sumSqA == SumSeq([i \in 1..Len(a) |-> da[i] * da[i]])
             sumSqB == SumSeq([i \in 1..Len(a) |-> db[i] * db[i]])
         IN IF sumSqA = 0 \/ sumSqB = 0 THEN ScoreOne
            ELSE [num |-> sumProduct, den2 |-> sumSqA * sumSqB,
                  round |-> RoundingOf(rounding, a, b)]

\* The vectors normalizedCrossCorrelation is called on: up to MaxVector
\* luminance levels each.  sc.got is empty until the call has returned.
Levels == {0, 1, 2}
Vectors == SeqsUpTo(Levels, MaxVector)
ScoreInit == sc \in [a : Vectors, b : Vectors, got : {<<>>}]

\* One call normalizedCrossCorrelation(a, b), rounded as the build rounds it
CallNormalizedCrossCorrelation ==
    /\ sc.got = <<>>
    /\ \E rounding \in [{<<sc.a, sc.b>>} -> Directions] :
          sc' = [sc EXCEPT !.got = <<normalizedCrossCorrelation(sc.a, sc.b, rounding)>>]

RECURSIVE GCD(_, _)
GCD(m, n) == IF n = 0 THEN m ELSE GCD(n, m % n)

\* The exact value of a score against t thousandths: -1 when it is less, 0
\* when they are equal, 1 when it is more.  With t / 1000 = p / q in lowest
\* terms, num / sqrt(den2) is compared with p / q.
ExactCompare(score, t) ==
    LET g == GCD(IF t < 0 THEN 0 - t ELSE t, 1000)
        p == t \div g
        l == (1000 \div g) * score.num
        lhs == l * l
        rhs == p * p * score.den2
    IN IF l < 0 /\ p >= 0 THEN -1
       ELSE IF l >= 0 /\ p <= 0 THEN (IF l = 0 /\ p = 0 THEN 0 ELSE 1)
       ELSE IF l >= 0 THEN (IF lhs < rhs THEN -1 ELSE IF lhs = rhs THEN 0 ELSE 1)
       ELSE (IF lhs > rhs THEN -1 ELSE IF lhs = rhs THEN 0 ELSE 1)

\* Mutant of ScoreBelow: the comparison turned round (correlation > threshold).
ScoreAbove(score, t) ==
    LET c == ExactCompare(score, t)
    IN c > 0 \/ (c = 0 /\ score.round > 0)

\* correlation < threshold, threshold in thousandths: where the exact value
\* equals the threshold, the float64 is below it when it was rounded down.
ScoreBelow(score, t) ==
    LET c == ExactCompare(score, t)
    IN c < 0 \/ (c = 0 /\ score.round < 0)

----------------------------------------------------------------------------
(* internal/video: DetectKeyframes *)

\* An error: its message and the number the message carries, if it has one
Error(msg) == [msg |-> msg, num |-> <<>>]
ErrorAt(msg, n) == [msg |-> msg, num |-> <<n>>]
NoError == Error("nil")

\* Mutant of DetectLoop: the previous vector is replaced only when the frame
\* is selected, so a frame is compared with the last keyframe.
RECURSIVE DetectLoopAgainstKeyframe(_, _, _, _, _, _, _)
DetectLoopAgainstKeyframe(fr, threshold, fs, rounding, i, prevGray, kfs) ==
    IF i > Len(fr) THEN [keyframes |-> kfs, err |-> NoError]
    ELSE LET curr == loadAndProcessFrame(fr[i].Path, fs)
         IN IF curr.err # "nil"
            THEN [keyframes |-> <<>>, err |-> ErrorAt("failed to load frame", i - 1)]
            ELSE IF ScoreBelow(normalizedCrossCorrelation(prevGray, curr.gray, rounding),
                               threshold)
            THEN DetectLoopAgainstKeyframe(fr, threshold, fs, rounding, i + 1, curr.gray,
                                           Append(kfs, Keyframe(fr[i])))
            ELSE DetectLoopAgainstKeyframe(fr, threshold, fs, rounding, i + 1, prevGray, kfs)

\* The loop of DetectKeyframes from position i (1-based here, the code's
\* i is one less) with the previous frame's vector and the keyframes so far.
RECURSIVE DetectLoop(_, _, _, _, _, _, _)
RECURSIVE DetectLoopEvents(_, _, _, _, _, _, _)
DetectLoop(fr, threshold, fs, rounding, i, prevGray, kfs) ==
    IF i > Len(fr) THEN [keyframes |-> kfs, err |-> NoError]
    ELSE LET curr == loadAndProcessFrame(fr[i].Path, fs)
         IN IF curr.err # "nil"
            THEN [keyframes |-> <<>>, err |-> ErrorAt("failed to load frame", i - 1)]
            ELSE LET correlation == normalizedCrossCorrelation(prevGray, curr.gray, rounding)
                     next == IF ScoreBelow(correlation, threshold)
                             THEN Append(kfs, Keyframe(fr[i]))
                             ELSE kfs
                 IN DetectLoop(fr, threshold, fs, rounding, i + 1, curr.gray, next)

\* Mutant of IncludeLast: the last frame is never added.
IncludeLastNever(fr, kfs) == kfs

\* Mutant of IncludeLast: the last frame is added without looking.
IncludeLastAlways(fr, kfs) == Append(kfs, Keyframe(fr[Len(fr)]))

\* "Always include last frame if not already included"
IncludeLast(fr, kfs) ==
    LET lastFrame == fr[Len(fr)]
    IN IF Len(kfs) = 0 \/ kfs[Len(kfs)].Index # lastFrame.Index
       THEN Append(kfs, Keyframe(lastFrame))
       ELSE kfs

DetectKeyframes(fr, threshold, fs, rounding) ==
    IF Len(fr) = 0 THEN [keyframes |-> <<>>, err |-> NoError]
    ELSE IF Len(fr) = 1 THEN [keyframes |-> <<Keyframe(fr[1])>>, err |-> NoError]
    ELSE LET first == loadAndProcessFrame(fr[1].Path, fs)
         IN IF first.err # "nil"
            THEN [keyframes |-> <<>>, err |-> Error("failed to load first frame")]
            ELSE LET looped == DetectLoop(fr, threshold, fs, rounding, 2, first.gray,
                                          <<Keyframe(fr[1])>>)
                 IN IF looped.err # NoError THEN looped
                    ELSE [keyframes |-> IncludeLast(fr, looped.keyframes), err |-> NoError]

\* The order in which DetectKeyframes works through the frames: in each pass
\* of its loop the pair (i-1, i) is scored (normalizedCrossCorrelation) and
\* the decision on frame i is taken (correlation < threshold) before frame
\* i+1 is loaded.  at is the position of the frame in the input.
ScoreEvent(i) == [op |-> "score", at |-> i]
DecideEvent(i, selected) == [op |-> "decide", at |-> i, selected |-> selected]
DetectLoopEvents(fr, threshold, fs, rounding, i, prevGray, events) ==
    IF i > Len(fr) THEN events
    ELSE LET curr == loadAndProcessFrame(fr[i].Path, fs)
         IN IF curr.err # "nil" THEN events
            ELSE LET correlation == normalizedCrossCorrelation(prevGray, curr.gray, rounding)
                     selected == ScoreBelow(correlation, threshold)
                 IN DetectLoopEvents(fr, threshold, fs, rounding, i + 1, curr.gray,
                        events \o <<ScoreEvent(i), DecideEvent(i, selected)>>)

DetectEvents(fr, threshold, fs, rounding) ==
    IF Len(fr) < 2 THEN <<>>
    ELSE LET first == loadAndProcessFrame(fr[1].Path, fs)
         IN IF first.err # "nil" THEN <<>>
            ELSE DetectLoopEvents(fr, threshold, fs, rounding, 2, first.gray, <<>>)

\* The frame lists DetectKeyframes is given: strictly increasing indices, one
\* file per frame; the indices follow each other as ExtractFrames numbers
\* them, or leave one out each time.
Strides == {1, 2}
FramesOf(n, stride) == [i \in 1..n |-> Frame(i * stride)]

\* The pairs of vectors DetectKeyframes scores on fr whose exact score equals
\* a threshold: those on which the rounding shows in a comparison.
Tied(a, b) ==
    LET exact == normalizedCrossCorrelation(a, b, NoRounding)
    IN /\ exact \notin {ScoreZero, ScoreOne}
       /\ \E t \in Thresholds : ExactCompare(exact, t) = 0
TiedPairs(fr, fs) ==
    {pair \in {<<loadAndProcessFrame(fr[i - 1].Path, fs).gray,
                 loadAndProcessFrame(fr[i].Path, fs).gray>> : i \in 2..Len(fr)} :
        Tied(pair[1], pair[2])}
\* What the build's arithmetic can do on the pairs scored on fr
Roundings(fr, fs) == [TiedPairs(fr, fs) -> Directions]

DetectInit ==
    /\ \E n \in 0..MaxFrames, stride \in Strides :
          /\ frames = FramesOf(n, stride)
          /\ files \in [{i * stride : i \in 1..n} -> Images]
    /\ fpu \in Roundings(frames, files)
    /\ runs = <<>>

\* One call DetectKeyframes(frames, threshold, nil).
CallDetectKeyframes(threshold) ==
    /\ threshold \notin DOMAIN runs
    /\ Cardinality(DOMAIN runs) < MaxRuns
    /\ runs' = [t \in DOMAIN runs \cup {threshold} |->
                  IF t = threshold THEN DetectKeyframes(frames, threshold, files, fpu)
                  ELSE runs[t]]
    /\ UNCHANGED <<frames, files, fpu>>

----------------------------------------------------------------------------
(* internal/video: ExtractFrames, SaveKeyframes, CleanupFrames *)

\* What the decoder and the file system do in one call of ExtractFrames:
\*   fault     what fails ("none" when nothing does)
\*   produced  the files NNNN.png the decoder wrote: stem -> content
\* It returns the frames and the error, and leaves the scratch directory
\* "none" (never made), "exists" (with its files) or "removed".
\* Mutant of ExtractFailed: the directory is left as it is (no RemoveAll).
ExtractFailedLeavingDir(msg, dir) ==
    [frames |-> <<>>, err |-> Error(msg),
     scratch |-> IF dir = "removed" THEN "exists" ELSE dir, files |-> <<>>]
ExtractFailed(msg, dir) ==
    [frames |-> <<>>, err |-> Error(msg), scratch |-> dir, files |-> <<>>]

ExtractFrames(world) ==
    IF world.fault = "mkdirTemp" THEN ExtractFailed("failed to create temp directory", "none")
    ELSE IF world.fault = "start" THEN ExtractFailed("failed to start ffmpeg", "removed")
    ELSE IF world.fault = "wait" THEN ExtractFailed("ffmpeg extraction failed", "removed")
    ELSE IF world.fault = "readDir" THEN ExtractFailed("failed to read temp directory", "removed")
    ELSE LET sorted == SetToSortedSeq(DOMAIN world.produced)
             found == [i \in 1..Len(sorted) |-> Frame(sorted[i])]
         IN IF Len(found) = 0 THEN ExtractFailed("no frames extracted from video", "removed")
            ELSE [frames |-> found, err |-> NoError, scratch |-> "exists",
                  files |-> world.produced]

\* CleanupFrames(frames): removes the directory of the first frame.  No
\* action of run applies it: run never calls it.
CleanupFrames(fr, dir) == IF Len(fr) = 0 THEN dir ELSE "removed"

\* saveKeyframe: open and decode the frame, create frame_<Index>.jpg in
\* the output directory, encode.  fault names the keyframe (by position) whose
\* os.Create or jpeg.Encode fails, if one does.
NoFault == [at |-> 0, kind |-> "none"]
saveKeyframe(kf, position, fs, names, fault) ==
    IF kf.Path \notin DOMAIN fs
    THEN [err |-> ErrorAt("failed to open frame", kf.Index), names |-> names]
    ELSE IF ~fs[kf.Path].decodes
    THEN [err |-> ErrorAt("failed to decode frame", kf.Index), names |-> names]
    ELSE IF fault.at = position /\ fault.kind = "create"
    THEN [err |-> Error("failed to create output file"), names |-> names]
    ELSE IF fault.at = position /\ fault.kind = "encode"
    THEN [err |-> Error("failed to encode JPEG"), names |-> names \cup {kf.Index}]
    ELSE [err |-> NoError, names |-> names \cup {kf.Index}]

\* SaveKeyframes from position i on; names are the files in the output
\* directory, tried the indices of the keyframes saveKeyframe was called
\* for, in order.
\* Mutant of SaveKeyframesFrom: after a failure the loop goes on with the
\* keyframes that are left, and the first error is returned at the end.
RECURSIVE SaveKeyframesFrom(_, _, _, _, _)
RECURSIVE SaveKeyframesFromGoingOn(_, _, _, _, _)
SaveKeyframesFromGoingOn(kfs, i, fs, names, fault) ==
    IF i > Len(kfs) THEN [err |-> NoError, names |-> names, tried |-> <<>>]
    ELSE LET one == saveKeyframe(kfs[i], i, fs, names, fault)
             rest == SaveKeyframesFromGoingOn(kfs, i + 1, fs, one.names, fault)
         IN [err |-> IF one.err # NoError THEN one.err ELSE rest.err,
             names |-> rest.names,
             tried |-> <<kfs[i].Index>> \o rest.tried]
SaveKeyframesFrom(kfs, i, fs, names, fault) ==
    IF i > Len(kfs) THEN [err |-> NoError, names |-> names, tried |-> <<>>]
    ELSE LET one == saveKeyframe(kfs[i], i, fs, names, fault)
         IN IF one.err # NoError
            THEN [err |-> one.err, names |-> one.names, tried |-> <<kfs[i].Index>>]
            ELSE LET rest == SaveKeyframesFrom(kfs, i + 1, fs, one.names, fault)
                 IN [rest EXCEPT !.tried = <<kfs[i].Index>> \o @]

SaveKeyframes(kfs, fs, names, fault) == SaveKeyframesFrom(kfs, 1, fs, names, fault)

SaveFaults(kfs) ==
    {NoFault} \cup {[at |-> i, kind |-> k] : i \in 1..Len(kfs), k \in {"create", "encode"}}

----------------------------------------------------------------------------
(* internal/audio: text.  A string is a sequence of one-character strings. *)

DigitChars == <<"0", "1", "2", "3", "4", "5", "6", "7", "8", "9">>
IsDigit(c) == \E i \in 1..10 : DigitChars[i] = c
DigitVal(c) == (CHOOSE i \in 1..10 : DigitChars[i] = c) - 1

\* Characters TLA+ strings cannot spell are written by their code point.
VerticalTab == "U+000B"
NextLine == "U+0085"
NoBreakSpace == "U+00A0"
OtherSpaces ==
    {"U+1680", "U+2000", "U+2001", "U+2002", "U+2003", "U+2004", "U+2005", "U+2006",
     "U+2007", "U+2008", "U+2009", "U+200A", "U+2028", "U+2029", "U+202F", "U+205F",
     "U+3000"}

\* \s of the pattern: the class [\t\n\f\r ] of regexp/syntax
PatternSpace(c) == c \in {" ", "\t", "\n", "\r", "\f"}

\* unicode.IsSpace, the white space of strings.TrimSpace and strings.Fields
IsSpace(c) ==
    c \in {"\t", "\n", VerticalTab, "\f", "\r", " ", NextLine, NoBreakSpace} \cup OtherSpaces

\* strings.TrimSpace
TrimSpace(s) ==
    IF \A i \in 1..Len(s) : IsSpace(s[i]) THEN <<>>
    ELSE LET first == CHOOSE i \in 1..Len(s) :
                          ~IsSpace(s[i]) /\ \A k \in 1..(i - 1) : IsSpace(s[k])
             last == CHOOSE i \in 1..Len(s) :
                         ~IsSpace(s[i]) /\ \A k \in (i + 1)..Len(s) : IsSpace(s[k])
         IN SubSeq(s, first, last)

\* strings.Split(s, sep) for a one-character sep
RECURSIVE Split(_, _)
Split(s, sep) ==
    IF \A i \in 1..Len(s) : s[i] # sep THEN <<s>>
    ELSE LET at == CHOOSE i \in 1..Len(s) : s[i] = sep /\ \A k \in 1..(i - 1) : s[k] # sep
         IN <<SubSeq(s, 1, at - 1)>> \o Split(SubSeq(s, at + 1, Len(s)), sep)

\* strconv.Atoi: an optional sign and at least one decimal digit; anything
\* else is an error
RECURSIVE DecimalValue(_)
DecimalValue(s) ==
    IF s = <<>> THEN 0 ELSE 10 * DecimalValue(SubSeq(s, 1, Len(s) - 1)) + DigitVal(s[Len(s)])
Atoi(s) ==
    LET signed == s # <<>> /\ s[1] \in {"+", "-"}
        digits == IF signed THEN Tail(s) ELSE s
    IN IF digits # <<>> /\ \A i \in 1..Len(digits) : IsDigit(digits[i])
       THEN [err |-> FALSE,
             val |-> IF signed /\ s[1] = "-" THEN 0 - DecimalValue(digits)
                     ELSE DecimalValue(digits)]
       ELSE [err |-> TRUE, val |-> 0]

\* bufio.Scanner with ScanLines over a string: the lines, without their
\* "\n" and without a trailing "\r"; a last line without "\n" counts when
\* it is not empty.
DropCR(line) ==
    IF line # <<>> /\ line[Len(line)] = "\r" THEN SubSeq(line, 1, Len(line) - 1) ELSE line
RECURSIVE ScanLines(_)
ScanLines(s) ==
    IF s = <<>> THEN <<>>
    ELSE IF \A i \in 1..Len(s) : s[i] # "\n" THEN <<DropCR(s)>>
    ELSE LET at == CHOOSE i \in 1..Len(s) : s[i] = "\n" /\ \A k \in 1..(i - 1) : s[k] # "\n"
         IN <<DropCR(SubSeq(s, 1, at - 1))>> \o ScanLines(SubSeq(s, at + 1, Len(s)))

----------------------------------------------------------------------------
(* internal/audio: parseTimestamp and parseWhisperOutput *)

Hour == 3600000
Minute == 60000
Second == 1000

\* Mutant of parseTimestamp: the minutes are counted as hundredths of an hour.
parseTimestampCentesimal(ts) ==
    LET parts == Split(ts, ":")
    IN IF Len(parts) # 3 THEN [err |-> TRUE, val |-> 0]
       ELSE LET hours == Atoi(parts[1])
                minutes == Atoi(parts[2])
                secParts == Split(parts[3], ".")
                seconds == Atoi(secParts[1])
                millis == IF Len(secParts) > 1 THEN Atoi(secParts[2])
                          ELSE [err |-> FALSE, val |-> 0]
            IN IF hours.err \/ minutes.err \/ seconds.err \/ millis.err
               THEN [err |-> TRUE, val |-> 0]
               ELSE [err |-> FALSE,
                     val |-> hours.val * Hour + minutes.val * 36000
                             + seconds.val * Second + millis.val]

\* parseTimestamp: HH:MM:SS.mmm to a duration (milliseconds here)
parseTimestamp(ts) ==
    LET parts == Split(ts, ":")
    IN IF Len(parts) # 3 THEN [err |-> TRUE, val |-> 0]
       ELSE LET hours == Atoi(parts[1])
                minutes == Atoi(parts[2])
                secParts == Split(parts[3], ".")
                seconds == Atoi(secParts[1])
                millis == IF Len(secParts) > 1 THEN Atoi(secParts[2])
                          ELSE [err |-> FALSE, val |-> 0]
            IN IF hours.err \/ minutes.err \/ seconds.err \/ millis.err
               THEN [err |-> TRUE, val |-> 0]
               ELSE [err |-> FALSE,
                     val |-> hours.val * Hour + minutes.val * Minute
                             + seconds.val * Second + millis.val]

\* \d{2}:\d{2}:\d{2}\.\d{3} at position p of line
TimestampAt(line, p) ==
    /\ p + 11 <= Len(line)
    /\ \A k \in {0, 1, 3, 4, 6, 7, 9, 10, 11} : IsDigit(line[p + k])
    /\ line[p + 2] = ":" /\ line[p + 5] = ":" /\ line[p + 8] = "."

\* \s* from position p: the position after the white space
SkipSpaces(line, p) ==
    CHOOSE q \in p..(Len(line) + 1) :
        /\ \A k \in p..(q - 1) : PatternSpace(line[k])
        /\ q = Len(line) + 1 \/ ~PatternSpace(line[q])

\* The pattern \[(ts)\s*-->\s*(ts)\]\s*(.*) matched with its "[" at p
NoMatch == [ok |-> FALSE, start |-> <<>>, end |-> <<>>, text |-> <<>>]
MatchAt(line, p) ==
    IF ~(line[p] = "[" /\ TimestampAt(line, p + 1)) THEN NoMatch
    ELSE LET arrow == SkipSpaces(line, p + 13)
         IN IF ~(arrow + 2 <= Len(line) /\ SubSeq(line, arrow, arrow + 2) = <<"-", "-", ">">>)
            THEN NoMatch
            ELSE LET ts2 == SkipSpaces(line, arrow + 3)
                 IN IF ~(TimestampAt(line, ts2) /\ ts2 + 12 <= Len(line) /\ line[ts2 + 12] = "]")
                    THEN NoMatch
                    ELSE [ok |-> TRUE,
                          start |-> SubSeq(line, p + 1, p + 12),
                          end |-> SubSeq(line, ts2, ts2 + 11),
                          text |-> SubSeq(line, SkipSpaces(line, ts2 + 13), Len(line))]

\* pattern.FindStringSubmatch(line): the leftmost match
FindStringSubmatch(line) ==
    LET hits == {p \in 1..Len(line) : MatchAt(line, p).ok}
    IN IF hits = {} THEN NoMatch
       ELSE MatchAt(line, CHOOSE p \in hits : \A q \in hits : p <= q)

\* The body of the loop of parseWhisperOutput: the segments one line adds
SegmentOfLine(line) ==
    LET m == FindStringSubmatch(line)
    IN IF ~m.ok THEN <<>>
       ELSE LET text == TrimSpace(m.text)
            IN IF text = <<>> THEN <<>>
               ELSE <<[Start |-> parseTimestamp(m.start).val,
                       End |-> parseTimestamp(m.end).val,
                       Text |-> text]>>

RECURSIVE SegmentsOfLines(_)
SegmentsOfLines(lines) ==
    IF lines = <<>> THEN <<>>
    ELSE SegmentOfLine(lines[1]) \o SegmentsOfLines(Tail(lines))

parseWhisperOutput(output) == SegmentsOfLines(ScanLines(output))

----------------------------------------------------------------------------
(* internal/audio: runWhisper *)

\* What the recognizer and its environment do in one call:
\*   fault   what fails before the process runs ("none" when nothing does)
\*   exit    the exit status of whisper-cli
\*   stdout  the bytes it prints
\*   file    the -otxt output file afterwards
Unreadable == [readable |-> FALSE, bytes |-> <<>>]
FileWith(bytes) == [readable |-> TRUE, bytes |-> bytes]

\* The goroutine that reads stdout: every scanned line and a "\n"
RECURSIVE JoinLines(_)
JoinLines(lines) ==
    IF lines = <<>> THEN <<>> ELSE lines[1] \o <<"\n">> \o JoinLines(Tail(lines))
CollectOutput(stdout) == JoinLines(ScanLines(stdout))

NoSegments == <<>>
WhisperFailed(msg, tempCreated, spawned) ==
    [segments |-> NoSegments, parsed |-> NoSegments, err |-> msg,
     tempCreated |-> tempCreated, spawned |-> spawned]

\* "Fall back to reading the output file without timestamps"
Fallback(parsed, file) ==
    IF Len(parsed) = 0 /\ file.readable /\ Len(file.bytes) > 0
    THEN <<[Start |-> 0, End |-> 0, Text |-> TrimSpace(file.bytes)]>>
    ELSE parsed

runWhisper(in) ==
    IF in.fault = "createTemp" THEN WhisperFailed("failed to create temp file", FALSE, FALSE)
    ELSE IF in.fault = "notFound" THEN WhisperFailed("whisper-cli not found", TRUE, FALSE)
    ELSE IF in.fault = "start" THEN WhisperFailed("failed to start whisper", TRUE, FALSE)
    ELSE IF in.exit # 0 THEN WhisperFailed("whisper failed", TRUE, TRUE)
    ELSE LET parsed == parseWhisperOutput(CollectOutput(in.stdout))
         IN [segments |-> Fallback(parsed, in.file), parsed |-> parsed, err |-> "nil",
             tempCreated |-> TRUE, spawned |-> TRUE]

\* TranscribeAudio(audioPath, modelPath, onProgress)
TranscribeAudio(in) == runWhisper(in)

\* ModelExists(modelPath): os.Stat succeeds
ModelExists(in) == in.model

\* extractAudio as one step: what it returned, whether it created its temp
\* file, whether it started the decoder, and whether the file is still there.
\* The temp file is removed on every failure after it was closed; a failure
\* to close it returns with the file left behind.
AudioFaults == {"none", "createTemp", "close", "pipe", "start", "wait"}
extractAudio(fault) ==
    IF fault = "createTemp"
    THEN [err |-> "failed to create temp file", tempCreated |-> FALSE, spawned |-> FALSE,
          kept |-> FALSE]
    ELSE IF fault = "close"
    THEN [err |-> "failed to close temp file", tempCreated |-> TRUE, spawned |-> FALSE,
          kept |-> TRUE]
    ELSE IF fault = "pipe"
    THEN [err |-> "failed to create stdout pipe", tempCreated |-> TRUE, spawned |-> FALSE,
          kept |-> FALSE]
    ELSE IF fault = "start"
    THEN [err |-> "failed to start ffmpeg", tempCreated |-> TRUE, spawned |-> FALSE,
          kept |-> FALSE]
    ELSE IF fault = "wait"
    THEN [err |-> "ffmpeg audio extraction failed", tempCreated |-> TRUE, spawned |-> TRUE,
          kept |-> FALSE]
    ELSE [err |-> "nil", tempCreated |-> TRUE, spawned |-> TRUE, kept |-> TRUE]

\* Transcribe(inputPath, modelPath, duration, onProgress): the model check,
\* extractAudio, runWhisper.  tempCreated and spawned say whether any
\* temporary file was created and any subprocess started.
Transcribe(in, audioFault) ==
    IF ~ModelExists(in) THEN WhisperFailed("whisper model not found", FALSE, FALSE)
    ELSE LET audio == extractAudio(audioFault)
         IN IF audio.err # "nil"
            THEN WhisperFailed("audio extraction failed", audio.tempCreated, audio.spawned)
            ELSE LET got == runWhisper(in)
                 IN IF got.err # "nil"
                    THEN WhisperFailed("whisper transcription failed", TRUE, TRUE)
                    ELSE [got EXCEPT !.tempCreated = TRUE, !.spawned = TRUE]

----------------------------------------------------------------------------
(* What the recognizer prints: lines built from a description, so that what *)
(* was printed can be compared with what was parsed.                        *)

Stamp(h, m, s, ms) == [h |-> h, m |-> m, s |-> s, ms |-> ms]
StampMillis(t) == t.h * 3600000 + t.m * 60000 + t.s * 1000 + t.ms
TwoDigits(n) == <<DigitChars[(n \div 10) + 1], DigitChars[(n % 10) + 1]>>
ThreeDigits(n) == <<DigitChars[(n \div 100) + 1]>> \o TwoDigits(n % 100)
StampChars(t) ==
    TwoDigits(t.h) \o <<":">> \o TwoDigits(t.m) \o <<":">> \o TwoDigits(t.s)
        \o <<".">> \o ThreeDigits(t.ms)

\* A line "lead[start gap-->gap end]pad core trail": core is the text,
\* without white space at its ends.
Utterance(lead, start, gap, end, pad, core, trail) ==
    [kind |-> "utterance", lead |-> lead, start |-> start, gap |-> gap, end |-> end,
     pad |-> pad, core |-> core, trail |-> trail]
\* Any other line
Other(chars) == [kind |-> "other", chars |-> chars]

LineChars(d) ==
    IF d.kind = "other" THEN d.chars
    ELSE d.lead \o <<"[">> \o StampChars(d.start) \o d.gap \o <<"-", "-", ">">> \o d.gap
             \o StampChars(d.end) \o <<"]">> \o d.pad \o d.core \o d.trail

RECURSIVE Printed(_)
Printed(script) ==
    IF script = <<>> THEN <<>>
    ELSE LineChars(script[1]) \o <<"\n">> \o Printed(Tail(script))

HelloWorld == <<"H", "e", "l", "l", "o", ",", " ", "w", "o", "r", "l", "d", ".">>

\* [00:00:00.000 --> 00:00:03.000]  Hello, world.
LineHello ==
    Utterance(<<>>, Stamp(0, 0, 0, 0), <<" ">>, Stamp(0, 0, 3, 0), <<" ", " ">>,
              HelloWorld, <<>>)
\* A vertical tab on both sides of the text: [00:00:03.000 --> 00:00:06.500] \vHi \v\r
LineHi ==
    Utterance(<<>>, Stamp(0, 0, 3, 0), <<" ">>, Stamp(0, 0, 6, 500), <<" ", VerticalTab>>,
              <<"H", "i">>, <<" ", VerticalTab, "\r">>)
\* A match that does not start the line, no blanks round the arrow, and an
\* end before the start: x [01:23:45.678-->00:59:59.999]b
LineBackwards ==
    Utterance(<<"x", " ">>, Stamp(1, 23, 45, 678), <<>>, Stamp(0, 59, 59, 999), <<>>,
              <<"b">>, <<>>)
\* Blank text, a vertical tab in it: [00:00:06.500 --> 00:00:10.000] \v
LineBlank ==
    Utterance(<<>>, Stamp(0, 0, 6, 500), <<" ">>, Stamp(0, 0, 10, 0),
              <<" ", VerticalTab, " ">>, <<>>, <<>>)
\* A log line
LineLog == Other(<<"l", "o", "g", ":", " ", "1">>)
\* One digit short: [0:00:00.000 --> 00:00:03.000] d
LineShort ==
    Other(<<"[", "0", ":", "0", "0", ":", "0", "0", ".", "0", "0", "0", " ", "-", "-", ">",
            " ", "0", "0", ":", "0", "0", ":", "0", "3", ".", "0", "0", "0", "]", " ", "d">>)
\* An empty line
LineEmpty == Other(<<>>)

LineDescriptions ==
    {LineHello, LineHi, LineBackwards, LineBlank, LineLog, LineShort, LineEmpty}

OutputFiles ==
    { Unreadable,
      FileWith(<<>>),
      FileWith(<<" ", VerticalTab, "\n">>),
      FileWith(<<VerticalTab, "H", "i", "\n">>) }

WhisperCall(fault, exit, script, file) ==
    [fault |-> fault, exit |-> exit, script |-> script, stdout |-> Printed(script),
     file |-> file, model |-> TRUE]

\* A call with a model path where no file is: the recognizer, if it gets to
\* start, cannot load the model and exits with a failure status.
MissingModelCall(fault) ==
    [WhisperCall(fault, 1, <<>>, FileWith(<<>>)) EXCEPT !.model = FALSE]

WhisperCalls ==
    {WhisperCall(f, 0, <<>>, FileWith(<<>>)) : f \in {"createTemp", "notFound", "start"}}
    \cup {WhisperCall("none", e, printedLines, fl) :
              e \in {0, 1}, printedLines \in SeqsUpTo(LineDescriptions, MaxLines), fl \in OutputFiles}
    \cup {MissingModelCall(f) : f \in {"createTemp", "notFound", "start", "none"}}

\* wOut is empty until the call has returned, then holds what it returned.
WhisperInit == wIn \in WhisperCalls /\ wOut = <<>>

\* One call TranscribeAudio(audioPath, modelPath, nil)
CallTranscribeAudio ==
    /\ wOut = <<>>
    /\ wOut' = <<TranscribeAudio(wIn)>>
    /\ UNCHANGED wIn

----------------------------------------------------------------------------
(* internal/video ExtractFrames and internal/audio extractAudio: one       *)
(* extraction, with the decoder process, its stdout pipe and the goroutine *)
(* parseFFmpegProgress.  Both functions start the decoder, start the       *)
(* goroutine when there is a callback and a duration, and wait.            *)

OutTimePrefix == <<"o", "u", "t", "_", "t", "i", "m", "e", "_", "u", "s", "=">>
\* strings.HasPrefix and strings.TrimPrefix
HasPrefix(str, prefix) ==
    Len(str) >= Len(prefix) /\ SubSeq(str, 1, Len(prefix)) = prefix
TrimPrefix(str, prefix) ==
    IF HasPrefix(str, prefix) THEN SubSeq(str, Len(prefix) + 1, Len(str)) ELSE str
\* An int64 (a time.Duration) is a word of WordLimbs limbs of 16 bits in
\* two's complement, the least significant limb first.
LimbBase == 65536
WordLimbs == 4
\* time.Microsecond, in nanoseconds
Microsecond == 1000
WordZero == [i \in 1..WordLimbs |-> 0]
\* w * m + c, m and c at most 1000: the low limbs, and the carry out of the
\* highest limb
RECURSIVE MulAdd(_, _, _)
MulAdd(w, m, c) ==
    IF w = <<>> THEN [word |-> <<>>, carry |-> c]
    ELSE LET x == w[1] * m + c
             rest == MulAdd(Tail(w), m, x \div LimbBase)
         IN [word |-> <<x % LimbBase>> \o rest.word, carry |-> rest.carry]
\* the int64 product w * m: what does not fit in 64 bits is dropped
Times(w, m) == MulAdd(w, m, 0).word
\* -w in two's complement
Negate(w) == MulAdd([i \in 1..WordLimbs |-> LimbBase - 1 - w[i]], 1, 1).word
IsNegative(w) == w[WordLimbs] >= LimbBase \div 2
\* the int64 of a small number n, 0 <= n < 2^31
WordOf(n) == [i \in 1..WordLimbs |->
                 IF i = 1 THEN n % LimbBase
                 ELSE IF i = 2 THEN n \div LimbBase ELSE 0]
\* a < b as unsigned numbers, decided at the highest limb that differs
RECURSIVE LessFrom(_, _, _)
LessFrom(a, b, i) ==
    IF i = 0 THEN FALSE
    ELSE IF a[i] # b[i] THEN a[i] < b[i]
    ELSE LessFrom(a, b, i - 1)
\* a < b as int64
Less(a, b) ==
    IF IsNegative(a) # IsNegative(b) THEN IsNegative(a)
    ELSE LessFrom(a, b, WordLimbs)

\* strconv.ParseUint(digits, 10, 64): the value as a word, or over when it
\* does not fit in 64 bits
RECURSIVE ParseUint(_)
ParseUint(digits) ==
    IF digits = <<>> THEN [over |-> FALSE, word |-> WordZero]
    ELSE LET front == ParseUint(SubSeq(digits, 1, Len(digits) - 1))
             next == MulAdd(front.word, 10, DigitVal(digits[Len(digits)]))
         IN [over |-> front.over \/ next.carry # 0, word |-> next.word]
\* strconv.ParseInt(str, 10, 64): an optional sign and decimal digits; a
\* value outside int64 is an error (out of range)
ParseInt(str) ==
    LET signed == str # <<>> /\ str[1] \in {"+", "-"}
        neg == signed /\ str[1] = "-"
        digits == IF signed THEN Tail(str) ELSE str
        un == ParseUint(digits)
        cutoff == [i \in 1..WordLimbs |-> IF i = WordLimbs THEN LimbBase \div 2 ELSE 0]
    IN IF digits = <<>> \/ \E i \in 1..Len(digits) : ~IsDigit(digits[i])
       THEN [err |-> TRUE, val |-> WordZero]
       ELSE IF un.over \/ (IF neg THEN LessFrom(cutoff, un.word, WordLimbs)
                                  ELSE ~LessFrom(un.word, cutoff, WordLimbs))
       THEN [err |-> TRUE, val |-> WordZero]
       ELSE [err |-> FALSE, val |-> IF neg THEN Negate(un.word) ELSE un.word]

\* A duration of ms milliseconds as the time.Duration the caller passes
DurationOf(ms) == Times(Times(WordOf(ms), 1000), 1000)

\* A progress value is the fraction num / den of two int64, den > 0.
ProgressOne == [num |-> WordOf(1), den |-> WordOf(1)]
\* currentTime := time.Duration(us) * time.Microsecond, an int64 product that
\* wraps; percent := float64(currentTime) / float64(totalDuration), cut to
\* 1.0 when above it.  For a totalDuration below 2^53 the quotient of the
\* two float64 is above 1.0 exactly when currentTime > totalDuration.
Percent(us, totalDuration) ==
    LET currentTime == Times(us, Microsecond)
    IN IF Less(totalDuration, currentTime) THEN ProgressOne
       ELSE [num |-> currentTime, den |-> totalDuration]

\* The body of parseFFmpegProgress's loop for one line: the values the
\* callback is called with
ProgressOfLine(line, totalDuration) ==
    IF ~HasPrefix(line, OutTimePrefix) THEN <<>>
    ELSE LET us == ParseInt(TrimPrefix(line, OutTimePrefix))
         IN IF us.err THEN <<>> ELSE <<Percent(us.val, totalDuration)>>

\* Lines of the decoder's -progress output: half way, past the end, before
\* the start, so far that the product wraps, no time yet, and a line of
\* another key
MarkerHalf == OutTimePrefix \o <<"1", "5", "0", "0", "0", "0", "0">>
MarkerPast == OutTimePrefix \o <<"4", "0", "0", "0", "0", "0", "0">>
MarkerNegative == OutTimePrefix \o <<"-", "2", "3", "2", "2", "0">>
MarkerWrapped ==
    OutTimePrefix \o <<"9", "2", "2", "3", "3", "7", "2", "0", "3", "6", "8", "5", "4", "7", "7", "6">>
MarkerNone == OutTimePrefix \o <<"N", "/", "A">>
MarkerOther == <<"p", "r", "o", "g", "r", "e", "s", "s", "=", "c", "o", "n", "t", "i", "n", "u", "e">>
ProgressLines ==
    {MarkerHalf, MarkerPast, MarkerNegative, MarkerWrapped, MarkerNone, MarkerOther}
\* What GetDuration reports, in milliseconds (0 when the probe fails)
ExtDurations == {0, 3000}
\* ProgressOfLine on every line and duration of the model, computed once
ProgressTable ==
    [line \in ProgressLines, ms \in ExtDurations |->
        ProgressOfLine(line, DurationOf(ms))]

\* ext.kind: "frames" for ExtractFrames, "audio" for extractAudio
\* ext.world: what the environment does (what fails, the lines the decoder
\*            has still to write, whether it exits with status 0)
\* ext.scratch: the temporary directory (frames) or file (audio): "none",
\*            "exists" or "removed"
\* ext.reader: "none", "running" or "done" for the goroutine
\* ext.buffer: the lines the goroutine's bufio.Scanner has read from the
\*             pipe and not yet returned
\* ext.calls: the values the callback was called with, in order
\* ext.late: how many of these calls were made after the function returned
\* What can fail in ExtractFrames: os.MkdirTemp, cmd.StdoutPipe, cmd.Start,
\* os.ReadDir, and a decoder that leaves no file NNNN.png
FrameFaults == {"none", "temp", "pipe", "start", "readDir", "noFrames"}
\* What can fail in extractAudio: os.CreateTemp, tempFile.Close,
\* cmd.StdoutPipe, cmd.Start
ExtAudioFaults == {"none", "temp", "close", "pipe", "start"}
ExtractInit ==
    /\ ext \in [kind : {"frames", "audio"},
                duration : ExtDurations,
                callback : BOOLEAN,
                fault : FrameFaults \cup ExtAudioFaults,
                script : SeqsUpTo(ProgressLines, MaxMarkers),
                exitOk : BOOLEAN,
                scratch : {"none"},
                pipe : {<<>>},
                decoder : {"none"},
                reader : {"none"},
                buffer : {<<>>},
                calls : {<<>>},
                late : {0},
                pc : {"start"},
                err : {"running"}]
    /\ ext.fault \in (IF ext.kind = "frames" THEN FrameFaults ELSE ExtAudioFaults)

\* os.MkdirTemp / os.CreateTemp and tempFile.Close, cmd.StdoutPipe,
\* cmd.Start, and
\* "if onProgress != nil && duration > 0 { go parseFFmpegProgress(...) }"
ExtStart ==
    /\ ext.pc = "start"
    /\ IF ext.fault = "temp"
       THEN ext' = [ext EXCEPT !.pc = "done",
                              !.err = IF ext.kind = "frames"
                                      THEN "failed to create temp directory"
                                      ELSE "failed to create temp file"]
       ELSE IF ext.fault = "close"
       THEN ext' = [ext EXCEPT !.pc = "done", !.scratch = "exists",
                              !.err = "failed to close temp file"]
       ELSE IF ext.fault = "pipe"
       THEN ext' = [ext EXCEPT !.pc = "done", !.scratch = "removed",
                              !.err = "failed to create stdout pipe"]
       ELSE IF ext.fault = "start"
       THEN ext' = [ext EXCEPT !.pc = "done", !.scratch = "removed",
                              !.err = "failed to start ffmpeg"]
       ELSE ext' = [ext EXCEPT !.pc = "wait",
                              !.scratch = "exists",
                              !.decoder = "running",
                              !.reader = IF ext.callback /\ ext.duration > 0
                                         THEN "running" ELSE "none"]

\* The decoder writes its next line to the pipe; the write blocks while the
\* pipe is full.
DecoderWrite ==
    /\ ext.decoder = "running"
    /\ ext.script # <<>>
    /\ Len(ext.pipe) < PipeLines
    /\ ext' = [ext EXCEPT !.pipe = Append(@, ext.script[1]), !.script = Tail(@)]

\* The decoder has written everything and exits.
DecoderExit ==
    /\ ext.decoder = "running"
    /\ ext.script = <<>>
    /\ ext' = [ext EXCEPT !.decoder = IF ext.exitOk THEN "exited 0" ELSE "exited 1"]

\* parseFFmpegProgress: scanner.Scan() has no whole line in its buffer and
\* reads from the pipe; the read takes everything the pipe holds
ReaderFill ==
    /\ ext.reader = "running"
    /\ ext.buffer = <<>>
    /\ ext.pipe # <<>>
    /\ ext' = [ext EXCEPT !.buffer = ext.pipe, !.pipe = <<>>]

\* parseFFmpegProgress: scanner.Scan() returns the next line of its buffer,
\* and the body of the loop runs on it
ReaderScan ==
    /\ ext.reader = "running"
    /\ ext.buffer # <<>>
    /\ LET made == ProgressTable[ext.buffer[1], ext.duration]
       IN ext' = [ext EXCEPT !.buffer = Tail(@),
                            !.calls = @ \o made,
                            !.late = IF ext.pc = "done" THEN @ + Len(made) ELSE @]

\* parseFFmpegProgress: scanner.Scan() returns false, at the end of the
\* stream or on the pipe that cmd.Wait closed
ReaderEnd ==
    /\ ext.reader = "running"
    /\ ext.buffer = <<>>
    /\ \/ ext.pipe = <<>> /\ ext.decoder \in {"exited 0", "exited 1"}
       \/ ext.pc = "done"
    /\ ext' = [ext EXCEPT !.reader = "done"]

\* cmd.Wait() returns once the decoder has exited, and closes the pipe; after
\* an exit with status 0 ExtractFrames reads the temporary directory and
\* fails when it cannot, or when it finds no frame file
ExtWait ==
    /\ ext.pc = "wait"
    /\ ext.decoder \in {"exited 0", "exited 1"}
    /\ LET err == IF ext.decoder = "exited 1"
                  THEN (IF ext.kind = "frames" THEN "ffmpeg extraction failed"
                        ELSE "ffmpeg audio extraction failed")
                  ELSE IF ext.fault = "readDir" THEN "failed to read temp directory"
                  ELSE IF ext.fault = "noFrames" THEN "no frames extracted from video"
                  ELSE "nil"
       IN ext' = [ext EXCEPT !.pc = "done",
                            !.pipe = <<>>,
                            !.scratch = IF err = "nil" THEN "exists" ELSE "removed",
                            !.err = err]

----------------------------------------------------------------------------
(* internal/ui: Step.  Every method holds s.mu from its first statement to *)
(* its return, so a call is one step.  Percent values are in thousandths.   *)

\* st.percent, st.complete, st.failed: the fields of the Step
\* st.rendered: the percent values render() has drawn, in order
\* st.stage: "running" while the stage the Step was made for has not
\*           returned to run, "returned" once run has called Complete or Error
\* st.updates: calls of Update so far; st.late: those made after Complete
\*           or Error
\* st.completes, st.errors: calls of Complete and of Error
StepPercents == {0, 500, 1000}
\* NewStep(name): &Step{Name: name}, then s.render()
NewStep ==
    [percent |-> 0, complete |-> FALSE, failed |-> FALSE, rendered |-> <<0>>,
     stage |-> "running", updates |-> 0, late |-> 0, completes |-> 0, errors |-> 0]
StepInit == st = NewStep

\* Mutant of Update: without the test of complete and failed.
UpdateStepUnchecked(s, percent) ==
    [s EXCEPT !.percent = percent, !.rendered = Append(@, percent)]
\* s.Update(percent)
UpdateStep(s, percent) ==
    IF s.complete \/ s.failed THEN s
    ELSE [s EXCEPT !.percent = percent, !.rendered = Append(@, percent)]
\* s.Complete(message)
CompleteStep(s) == [s EXCEPT !.complete = TRUE, !.percent = 1000]
\* s.Error(message)
ErrorStep(s) == [s EXCEPT !.failed = TRUE]

\* A progress callback: step.Update called by the stage in the foreground
\* while it runs, or by a reader goroutine, which may still run when the
\* stage has returned
StepUpdate(caller, percent) ==
    /\ st.updates < MaxUpdates
    /\ caller = "stage" => st.stage = "running"
    /\ st' = [UpdateStep(st, percent) EXCEPT
                 !.updates = @ + 1,
                 !.late = IF st.complete \/ st.failed THEN @ + 1 ELSE @]

\* run after the stage has returned without error: step.Complete(...)
StepComplete ==
    /\ st.stage = "running"
    /\ st' = [CompleteStep(st) EXCEPT !.stage = "returned", !.completes = @ + 1]

\* run after the stage has returned an error: step.Error(...), return
StepError ==
    /\ st.stage = "running"
    /\ st' = [ErrorStep(st) EXCEPT !.stage = "returned", !.errors = @ + 1]

----------------------------------------------------------------------------
(* internal/audio: downloadModel, executed by several processes on one     *)
(* model path.  A file is the process that created it (0: a model that was *)
(* there before); dl.content[f] counts the chunks written to it.  The      *)
(* directory gives the file at the model path (dl.model, <<>> when there   *)
(* is none) and the file under each temp name (dl.temps).                  *)

Downloads == 1..MaxDownloads
TempNames == 1..MaxTempNames
Complete(f) == dl.content[f] = ModelChunks
Without(dirEntries, name) == [n \in DOMAIN dirEntries \ {name} |-> dirEntries[n]]

DownloadInit ==
    /\ dl \in [model : {<<>>, <<0>>},
               temps : {<<>>},
               content : {[f \in 0..MaxDownloads |-> IF f = 0 THEN ModelChunks ELSE 0]},
               procs : {[p \in Downloads |-> [pc |-> "start", temp |-> 0, err |-> "running"]]}]

\* return fmt.Errorf(...) before the temp file exists
DlFail(p, msg) ==
    dl' = [dl EXCEPT !.procs[p].pc = "done", !.procs[p].err = msg]
\* return fmt.Errorf(...) with the deferred Close and Remove still to run
DlFailDeferred(p, msg) ==
    dl' = [dl EXCEPT !.procs[p].pc = "defer", !.procs[p].err = msg]

\* os.MkdirAll, http.Get, the status check
DlStart(p) ==
    /\ dl.procs[p].pc = "start"
    /\ \E fault \in {"none", "mkdir", "get", "status"} :
          IF fault = "mkdir" THEN DlFail(p, "failed to create model directory")
          ELSE IF fault \in {"get", "status"} THEN DlFail(p, "failed to download model")
          ELSE dl' = [dl EXCEPT !.procs[p].pc = "create"]

\* os.CreateTemp(modelDir, "whisper-model-*.tmp"): a name no file has now
DlCreateTemp(p) ==
    /\ dl.procs[p].pc = "create"
    /\ \/ DlFail(p, "failed to create temp file")
       \/ \E name \in TempNames \ DOMAIN dl.temps :
              dl' = [dl EXCEPT !.temps = [n \in DOMAIN dl.temps \cup {name} |->
                                            IF n = name THEN p ELSE dl.temps[n]],
                               !.procs[p].temp = name,
                               !.procs[p].pc = "copy"]

\* One turn of the copy loop: a chunk read and written to the open file, a
\* failed write, a failed read, or io.EOF
DlCopy(p) ==
    /\ dl.procs[p].pc = "copy"
    /\ IF Complete(p)
       THEN dl' = [dl EXCEPT !.procs[p].pc = "close"]
       ELSE \/ dl' = [dl EXCEPT !.content[p] = @ + 1]
            \/ DlFailDeferred(p, "failed to write model")
            \/ DlFailDeferred(p, "failed to read model")

\* tempFile.Close()
DlClose(p) ==
    /\ dl.procs[p].pc = "close"
    /\ \/ dl' = [dl EXCEPT !.procs[p].pc = "rename"]
       \/ DlFailDeferred(p, "failed to close temp file")

\* os.Rename(tempPath, modelPath): whatever file is under the temp name now
\* takes the model path; fails when no file is under that name
DlRename(p) ==
    /\ dl.procs[p].pc = "rename"
    /\ \/ DlFailDeferred(p, "failed to move model to final location")
       \/ /\ dl.procs[p].temp \in DOMAIN dl.temps
          /\ dl' = [dl EXCEPT !.model = <<dl.temps[dl.procs[p].temp]>>,
                              !.temps = Without(dl.temps, dl.procs[p].temp),
                              !.procs[p].pc = "defer",
                              !.procs[p].err = "nil"]

\* The deferred tempFile.Close() and os.Remove(tempPath), errors ignored
DlDeferred(p) ==
    /\ dl.procs[p].pc = "defer"
    /\ dl' = [dl EXCEPT !.temps = Without(dl.temps, dl.procs[p].temp),
                        !.procs[p].pc = "done"]

----------------------------------------------------------------------------
(* internal/output: EstimateTokens, formatDuration, WriteMarkdown *)

\* fmt's %d of n >= 0
RECURSIVE Itoa(_)
Itoa(n) ==
    IF n < 10 THEN <<DigitChars[n + 1]>>
    ELSE Itoa(n \div 10) \o <<DigitChars[(n % 10) + 1]>>
\* fmt's %02d of n >= 0
Pad2(n) == IF n < 10 THEN <<"0">> \o Itoa(n) ELSE Itoa(n)

\* Mutant of formatDuration: always M:SS, the hours counted in the minutes.
formatDurationInMinutes(d) ==
    LET r == ((d + 500) \div Second) * Second
    IN Itoa(r \div Minute) \o <<":">> \o Pad2((r % Minute) \div Second)
\* formatDuration: M:SS or H:MM:SS of d rounded to the second, d >= 0
formatDuration(d) ==
    LET r == ((d + 500) \div Second) * Second
        h == r \div Hour
        m == (r % Hour) \div Minute
        sec == (r % Minute) \div Second
    IN IF h > 0 THEN Itoa(h) \o <<":">> \o Pad2(m) \o <<":">> \o Pad2(sec)
       ELSE Itoa(m) \o <<":">> \o Pad2(sec)

\* len(strings.Fields(s)): the maximal runs of characters that are not white
\* space
WordCount(s) ==
    Cardinality({i \in 1..Len(s) : ~IsSpace(s[i]) /\ (i = 1 \/ IsSpace(s[i - 1]))})

\* int(float64(words) * 1.3)
TranscriptTokens(words) == (words * 13) \div 10
RECURSIVE SegmentTokens(_)
SegmentTokens(segs) ==
    IF segs = <<>> THEN 0
    ELSE TranscriptTokens(WordCount(segs[1].Text)) + SegmentTokens(Tail(segs))
\* tokens += len(result.Keyframes) * 1000; mutant: images counted at a tenth
ImageTokensAsText(kfs) == Len(kfs) * 100
ImageTokens(kfs) == Len(kfs) * 1000
EstimateTokens(result) ==
    100 + SegmentTokens(result.Segments) + ImageTokens(result.Keyframes)

\* A path is the sequence of its elements.  filepath.Base
Base(path) == IF path = <<>> THEN "." ELSE path[Len(path)]
\* filepath.Dir
Dir(path) == IF path = <<>> THEN <<>> ELSE SubSeq(path, 1, Len(path) - 1)
\* filepath.Rel(base, target) for two absolute paths: ".." for each element
\* of base past the common prefix, then the rest of target.
CommonPrefix(a, b) ==
    CHOOSE k \in 0..Len(a) :
        /\ k <= Len(b)
        /\ \A i \in 1..k : a[i] = b[i]
        /\ (k < Len(a) /\ k < Len(b)) => a[k + 1] # b[k + 1]
Rel(base, target) ==
    LET k == CommonPrefix(base, target)
        rel == [i \in 1..(Len(base) - k) |-> ".."] \o SubSeq(target, k + 1, Len(target))
    IN IF rel = <<>> THEN <<".">> ELSE rel
\* The path as text: its elements with "/" between them (an element is one
\* token of the text)
RECURSIVE PathText(_)
PathText(path) ==
    IF Len(path) <= 1 THEN path ELSE <<path[1], "/">> \o PathText(Tail(path))

NL == <<"\n">>
TitleText == <<"#", " ", "V", "i", "d", "e", "o", " ", "A", "n", "a", "l", "y", "s", "i", "s", ":", " ">>
MetadataHeader == <<"#", "#", " ", "M", "e", "t", "a", "d", "a", "t", "a">>
DurationLabel == <<"-", " ", "D", "u", "r", "a", "t", "i", "o", "n", ":", " ">>
FramesLabel == <<"-", " ", "O", "r", "i", "g", "i", "n", "a", "l", " ", "f", "r", "a", "m", "e", "s", ":", " ">>
KeyframesLabel == <<"-", " ", "K", "e", "y", "f", "r", "a", "m", "e", "s", " ", "e", "x", "t", "r", "a", "c", "t", "e", "d", ":", " ">>
TokensLabel == <<"-", " ", "T", "o", "k", "e", "n", " ", "e", "s", "t", "i", "m", "a", "t", "e", ":", " ", "~">>
TranscriptHeader == <<"#", "#", " ", "T", "r", "a", "n", "s", "c", "r", "i", "p", "t">>
KeyframesHeader == <<"#", "#", " ", "K", "e", "y", "f", "r", "a", "m", "e", "s">>
FrameHeading == <<"#", "#", "#", " ", "F", "r", "a", "m", "e", " ">>
FrameAt == <<"!", "[", "F", "r", "a", "m", "e", " ", "a", "t", " ">>

\* {{range .Segments}}[{{.StartStr}}] {{.Text}}\n{{end}}
RECURSIVE SegmentLines(_)
SegmentLines(segs) ==
    IF segs = <<>> THEN <<>>
    ELSE <<"[">> \o formatDuration(segs[1].Start) \o <<"]", " ">>
             \o TrimSpace(segs[1].Text) \o NL \o SegmentLines(Tail(segs))
\* {{if .Segments}} ... {{end}}
TranscriptBlock(segs) ==
    IF segs = <<>> THEN <<>>
    ELSE NL \o TranscriptHeader \o NL \o NL \o SegmentLines(segs) \o NL

\* {{range .Keyframes}}### Frame ... \n![Frame at ...](...)\n\n{{end}}
RECURSIVE KeyframeEntries(_, _)
KeyframeEntries(kfs, outputDir) ==
    IF kfs = <<>> THEN <<>>
    ELSE LET ts == formatDuration(kfs[1].Timestamp)
         IN FrameHeading \o Itoa(kfs[1].Index) \o <<" ", "(">> \o ts \o <<")">> \o NL
                \o FrameAt \o ts \o <<"]", "(">> \o PathText(Rel(outputDir, kfs[1].Path))
                \o <<")">> \o NL \o NL \o KeyframeEntries(Tail(kfs), outputDir)
\* {{if .Keyframes}} ... {{end}}
KeyframesBlock(kfs, outputDir) ==
    IF kfs = <<>> THEN <<>>
    ELSE NL \o KeyframesHeader \o NL \o NL \o KeyframeEntries(kfs, outputDir) \o NL

\* markdownTemplate executed on the template data of result
Document(outputPath, result) ==
    TitleText \o <<Base(result.InputPath)>> \o NL \o NL
        \o MetadataHeader \o NL
        \o DurationLabel \o formatDuration(result.Duration) \o NL
        \o FramesLabel \o Itoa(result.TotalFrames) \o NL
        \o KeyframesLabel \o Itoa(Len(result.Keyframes)) \o NL
        \o TokensLabel \o Itoa(EstimateTokens(result)) \o NL \o NL
        \o TranscriptBlock(result.Segments) \o NL
        \o KeyframesBlock(result.Keyframes, Dir(outputPath))

\* WriteMarkdown(outputPath, result).  A file is <<>> when it does not exist,
\* else <<its content>>.  fault: os.Create fails, or a write fails after
\* fault.at characters, or the last file.Close() fails after every write went
\* through, or nothing fails.
WriteMarkdown(outputPath, result, before, fault) ==
    LET doc == Document(outputPath, result)
    IN IF fault.kind = "create"
       THEN [err |-> "failed to create output file", file |-> before]
       ELSE IF fault.kind = "execute"
       THEN [err |-> "failed to execute template", file |-> <<SubSeq(doc, 1, fault.at)>>]
       ELSE IF fault.kind = "close"
       THEN [err |-> "close failed", file |-> <<doc>>]
       ELSE [err |-> "nil", file |-> <<doc>>]

\* Results given to WriteMarkdown and EstimateTokens.  Segment texts: one
\* word; three words with white space round them; two lines, the second one
\* reading as a header; no text.  The last start is 1:02:05.5.
ReportSegments ==
    { [Start |-> 0, End |-> 3000, Text |-> <<"H", "i">>],
      [Start |-> 725000, End |-> 728500, Text |-> <<" ", "a", VerticalTab, "b", " ", "c", "\n">>],
      [Start |-> 0, End |-> 0, Text |-> <<"a", "\n">> \o KeyframesHeader],
      [Start |-> 3725500, End |-> 3726000, Text |-> <<>>] }
ReportKeyframes ==
    { [Index |-> 1, Timestamp |-> 0, Path |-> <<"out", "v_frames", "frame_0001.jpg">>],
      [Index |-> 3662, Timestamp |-> 3661000, Path |-> <<"tmp", "frame_3662.jpg">>] }
ReportPath == <<"out", "v.md">>
Results ==
    [InputPath : {<<"in", "v.mp4">>}, Duration : {0, 3661000}, TotalFrames : {0, 3662},
     Keyframes : SeqsUpTo(ReportKeyframes, MaxKeyframes),
     Segments : SeqsUpTo(ReportSegments, MaxSegments)]
OldReport == <<"o", "l", "d", "\n">>
WriteFaults ==
    {NoFault, [at |-> 0, kind |-> "create"], [at |-> 0, kind |-> "execute"],
     [at |-> Len(TitleText), kind |-> "execute"], [at |-> 0, kind |-> "close"]}

\* md.err and md.est are empty until the call has returned.
ReportInit ==
    md \in [path : {ReportPath}, result : Results, before : {<<>>, <<OldReport>>},
            file : {<<>>}, err : {<<>>}, est : {<<>>}]
       /\ md.file = <<>>

\* One call WriteMarkdown(outputPath, result)
CallWriteMarkdown ==
    /\ md.err = <<>>
    /\ \E fault \in WriteFaults :
          LET got == WriteMarkdown(md.path, md.result, md.before, fault)
          IN md' = [md EXCEPT !.file = got.file, !.err = <<got.err>>]

\* One call EstimateTokens(result)
CallEstimateTokens ==
    /\ md.est = <<>>
    /\ md' = [md EXCEPT !.est = <<EstimateTokens(md.result)>>]

----------------------------------------------------------------------------
(* cmd/memorex: run *)

RunImages == {FlatDark, Ramp, Valley, Corrupt}
RunThresholds == {0, DefaultThreshold, 1000}
\* What GetDuration reports: 0 when the probe fails, else the length in ms
ProbedDurations == {0, 3000}
RunWhisperCalls ==
    { WhisperCall("notFound", 0, <<>>, FileWith(<<>>)),
      WhisperCall("none", 1, <<>>, FileWith(<<>>)),
      WhisperCall("none", 0, <<LineLog, LineHello>>, FileWith(<<>>)),
      WhisperCall("none", 0, <<LineBackwards, LineHi>>, FileWith(<<>>)),
      WhisperCall("none", 0, <<LineBlank>>, FileWith(<<" ", "\n">>)) }
ExtractWorlds ==
    {[fault |-> f, produced |-> <<>>] : f \in {"mkdirTemp", "start", "wait", "readDir"}}
    \cup {[fault |-> "none", produced |-> c] :
              c \in UNION {[1..n -> RunImages] : n \in 0..MaxRunFrames}}

\* convertKeyframes: the keyframe with the path of its saved file
convertKeyframes(kfs) ==
    [i \in 1..Len(kfs) |->
        [Index |-> kfs[i].Index, Timestamp |-> kfs[i].Timestamp, Path |-> kfs[i].Index]]
\* convertSegments
convertSegments(segs) ==
    [i \in 1..Len(segs) |->
        [Start |-> segs[i].Start, End |-> segs[i].End, Text |-> segs[i].Text]]

\* The frame_NNNN.jpg files that are in the output directory when run
\* starts, by their indices: none, or frame_0001.jpg of an earlier run.
\* outDir.made: this run called os.MkdirAll on the directory; outDir.names:
\* the files this run has opened with os.Create; outDir.old: the files that
\* were there before.
LeftByEarlierRun == {{}, {1}}
RunInit ==
    /\ pc = "start"
    /\ opts \in [noFrames : BOOLEAN, noTranscript : BOOLEAN, threshold : RunThresholds]
    /\ duration = 0
    /\ scratch = "none"
    /\ frames = <<>>
    /\ files = <<>>
    /\ keyframes = <<>>
    /\ segments = <<>>
    /\ \E old \in LeftByEarlierRun : outDir = [made |-> FALSE, names |-> {}, old |-> old]
    /\ report = <<>>
    /\ stages = <<>>
    /\ runErr = "running"

\* return fmt.Errorf(...)
Fail(msg) == pc' = "done" /\ runErr' = msg

\* "if !noTranscript { ... }"; mutant: the audio branch is taken whatever the
\* flag says
AfterFramesWithAudio == "model"
AfterFrames == IF opts.noTranscript THEN "report" ELSE "model"

\* run up to the first stage: the input file, the frames directory, the
\* duration.
RunStart ==
    /\ pc = "start"
    /\ \E inputExists \in BOOLEAN, mkdirOk \in BOOLEAN, probed \in ProbedDurations :
          IF ~inputExists
          THEN Fail("input file does not exist") /\ UNCHANGED <<outDir, duration>>
          ELSE IF ~opts.noFrames /\ ~mkdirOk
          THEN Fail("failed to create frames directory") /\ UNCHANGED <<outDir, duration>>
          ELSE /\ outDir' = [outDir EXCEPT !.made = ~opts.noFrames]
               /\ duration' = probed
               /\ pc' = IF opts.noFrames THEN AfterFrames ELSE "extract"
               /\ UNCHANGED runErr
    /\ UNCHANGED <<opts, scratch, frames, files, keyframes, segments, report, stages>>
    /\ UNCHANGED <<runs, fpu, whisperVars, otherVars>>

\* Step 1: Extract frames
RunExtractFrames ==
    /\ pc = "extract"
    /\ stages' = Append(stages, "ExtractFrames")
    /\ \E world \in ExtractWorlds :
          LET got == ExtractFrames(world)
          IN /\ scratch' = got.scratch
             /\ files' = got.files
             /\ IF got.err # NoError
                THEN Fail("frame extraction failed") /\ UNCHANGED frames
                ELSE frames' = got.frames /\ pc' = "detect" /\ UNCHANGED runErr
    /\ UNCHANGED <<opts, duration, keyframes, segments, outDir, report>>
    /\ UNCHANGED <<runs, fpu, whisperVars, otherVars>>

\* Step 2: Detect keyframes
RunDetectKeyframes ==
    /\ pc = "detect"
    /\ stages' = Append(stages, "DetectKeyframes")
    /\ \E rounding \in Roundings(frames, files) :
          LET got == DetectKeyframes(frames, opts.threshold, files, rounding)
          IN IF got.err # NoError
             THEN Fail("keyframe detection failed") /\ UNCHANGED keyframes
             ELSE keyframes' = got.keyframes /\ pc' = "save" /\ UNCHANGED runErr
    /\ UNCHANGED <<opts, duration, scratch, frames, files, segments, outDir, report>>
    /\ UNCHANGED <<runs, fpu, whisperVars, otherVars>>

\* Step 3: Save keyframes
RunSaveKeyframes ==
    /\ pc = "save"
    /\ stages' = Append(stages, "SaveKeyframes")
    /\ \E fault \in SaveFaults(keyframes) :
          LET got == SaveKeyframes(keyframes, files, outDir.names, fault)
          IN /\ outDir' = [outDir EXCEPT !.names = got.names]
             /\ IF got.err # NoError
                THEN Fail("failed to save keyframes")
                ELSE pc' = AfterFrames /\ UNCHANGED runErr
    /\ UNCHANGED <<opts, duration, scratch, frames, files, keyframes, segments, report>>
    /\ UNCHANGED <<runs, fpu, whisperVars, otherVars>>

\* Step: Download model if needed
RunDownloadModel ==
    /\ pc = "model"
    /\ \E modelExists \in BOOLEAN, downloadOk \in BOOLEAN :
          IF modelExists
          THEN pc' = "audio" /\ UNCHANGED <<stages, runErr>>
          ELSE /\ stages' = Append(stages, "DownloadModel")
               /\ IF downloadOk THEN pc' = "audio" /\ UNCHANGED runErr
                  ELSE Fail("failed to download model")
    /\ UNCHANGED <<opts, duration, scratch, frames, files, keyframes, segments, outDir, report>>
    /\ UNCHANGED <<runs, fpu, whisperVars, otherVars>>

\* Step: Extract audio
RunExtractAudio ==
    /\ pc = "audio"
    /\ stages' = Append(stages, "ExtractAudioTrack")
    /\ \E ok \in BOOLEAN :
          IF ok THEN pc' = "transcribe" /\ UNCHANGED runErr
          ELSE Fail("audio extraction failed")
    /\ UNCHANGED <<opts, duration, scratch, frames, files, keyframes, segments, outDir, report>>
    /\ UNCHANGED <<runs, fpu, whisperVars, otherVars>>

\* Step: Transcribe
RunTranscribe ==
    /\ pc = "transcribe"
    /\ stages' = Append(stages, "TranscribeAudio")
    /\ \E call \in RunWhisperCalls :
          LET got == TranscribeAudio(call)
          IN IF got.err # "nil"
             THEN Fail("transcription failed") /\ segments' = got.segments
             ELSE segments' = got.segments /\ pc' = "report" /\ UNCHANGED runErr
    /\ UNCHANGED <<opts, duration, scratch, frames, files, keyframes, outDir, report>>
    /\ UNCHANGED <<runs, fpu, whisperVars, otherVars>>

\* Step: Generate markdown.  WriteMarkdown fails in os.Create, with no file
\* written, or in tmpl.Execute, with a file that holds part of the report, or
\* in the last file.Close(), with a file that holds all of it.
TruncatedReport == [Truncated |-> TRUE]
RunWriteMarkdown ==
    /\ pc = "report"
    /\ stages' = Append(stages, "WriteMarkdown")
    /\ \E fault \in {"none", "create", "execute", "close"} :
          LET whole == [Duration |-> duration,
                        TotalFrames |-> Len(frames),
                        Keyframes |-> convertKeyframes(keyframes),
                        Segments |-> convertSegments(segments)]
          IN IF fault = "none"
             THEN report' = <<whole>> /\ pc' = "done" /\ runErr' = "nil"
             ELSE IF fault = "create"
             THEN Fail("failed to write output") /\ UNCHANGED report
             ELSE IF fault = "execute"
             THEN Fail("failed to write output") /\ report' = <<TruncatedReport>>
             ELSE Fail("failed to write output") /\ report' = <<whole>>
    /\ UNCHANGED <<opts, duration, scratch, frames, files, keyframes, segments, outDir>>
    /\ UNCHANGED <<runs, fpu, whisperVars, otherVars>>

RunNext ==
    \/ RunStart
    \/ RunExtractFrames
    \/ RunDetectKeyframes
    \/ RunSaveKeyframes
    \/ RunDownloadModel
    \/ RunExtractAudio
    \/ RunTranscribe
    \/ RunWriteMarkdown

----------------------------------------------------------------------------
(* Properties of DetectKeyframes (checked under SpecDetect) *)

NFrames == Len(frames)
AllFramesLoad == \A i \in 1..NFrames : files[frames[i].Path].decodes
Gray(i) == files[frames[i].Path].gray
\* score(f(i-1), fi) < t, for 2 <= i <= N
AdjacentBelow(i, t) ==
    ScoreBelow(normalizedCrossCorrelation(Gray(i - 1), Gray(i), fpu), t)
SelectedPositions(t) ==
    {1, NFrames} \cup {i \in 2..NFrames : AdjacentBelow(i, t)}
ExpectedKeyframes(t) ==
    LET pos == SetToSortedSeq(SelectedPositions(t))
    IN [k \in 1..Len(pos) |-> Keyframe(frames[pos[k]])]

\* C1: on N >= 2 frames that load, DetectKeyframes returns without error
\* exactly f1, every fi whose score against its immediate predecessor in the
\* input is strictly below t, and fN, in input order; when no adjacent score
\* is below t the result is <<f1, fN>>.
C1_SelectsByPredecessorScore ==
    \A t \in DOMAIN runs :
        (NFrames >= 2 /\ AllFramesLoad) =>
            /\ runs[t].err = NoError
            /\ runs[t].keyframes = ExpectedKeyframes(t)
            /\ (\A i \in 2..NFrames : ~AdjacentBelow(i, t)) =>
                   runs[t].keyframes = <<Keyframe(frames[1]), Keyframe(frames[NFrames])>>

\* C1 witness: four frames; the second is not selected, and the third scores
\* at or above t against the second but below t against the first (the last
\* keyframe), so it is left out; the result is <<f1, f4>>.
C1_Witness ==
    \E t \in DOMAIN runs :
        /\ NFrames = 4 /\ AllFramesLoad
        /\ ~AdjacentBelow(2, t) /\ ~AdjacentBelow(3, t) /\ ~AdjacentBelow(4, t)
        /\ ScoreBelow(normalizedCrossCorrelation(Gray(1), Gray(3), fpu), t)
        /\ runs[t].keyframes = <<Keyframe(frames[1]), Keyframe(frames[4])>>

\* C2: 0 frames give no keyframes and no error; 1 frame gives exactly that
\* frame; N >= 2 frames give, whenever keyframes are returned, a list that
\* starts with the first input index and ends with the last.
C2_Boundary ==
    \A t \in DOMAIN runs :
        /\ NFrames = 0 => runs[t] = [keyframes |-> <<>>, err |-> NoError]
        /\ NFrames = 1 =>
              runs[t] = [keyframes |-> <<Keyframe(frames[1])>>, err |-> NoError]
        /\ (NFrames >= 2 /\ runs[t].err = NoError) =>
              /\ Len(runs[t].keyframes) >= 2
              /\ runs[t].keyframes[1].Index = frames[1].Index
              /\ runs[t].keyframes[Len(runs[t].keyframes)].Index = frames[NFrames].Index

\* C2 witness: a run on N >= 2 frames where no frame scores below t, so the
\* last frame is in the result only because it is always included.
C2_Witness ==
    \E t \in DOMAIN runs :
        /\ NFrames >= 2 /\ AllFramesLoad
        /\ \A i \in 2..NFrames : ~AdjacentBelow(i, t)
        /\ Len(runs[t].keyframes) = 2

\* C3: for the same frames and thresholds t1 <= t2, the run with t2 returns
\* at least as many keyframes as the run with t1.
C3_RaisingThresholdNeverFewer ==
    \A t1, t2 \in DOMAIN runs :
        t1 <= t2 => Len(runs[t2].keyframes) >= Len(runs[t1].keyframes)

\* C3 witness: two runs on the same frames, the higher threshold returning
\* strictly more keyframes.
C3_Witness ==
    \E t1, t2 \in DOMAIN runs :
        t1 < t2 /\ Len(runs[t2].keyframes) > Len(runs[t1].keyframes)

\* C4 (as documented in README.md and SKILL.md): for the same frames, a
\* higher threshold never returns more keyframes than a lower one.
C4_HigherThresholdNeverMore ==
    \A t1, t2 \in DOMAIN runs :
        t1 <= t2 => Len(runs[t2].keyframes) <= Len(runs[t1].keyframes)

\* C5: the returned keyframes have strictly increasing indices, and each has
\* the index, timestamp and path of an input frame.
C5_IncreasingSubset ==
    \A t \in DOMAIN runs :
        LET kfs == runs[t].keyframes
        IN /\ \A i, j \in 1..Len(kfs) : i < j => kfs[i].Index < kfs[j].Index
           /\ \A k \in 1..Len(kfs) :
                 \E i \in 1..NFrames :
                     /\ kfs[k].Index = frames[i].Index
                     /\ kfs[k].Timestamp = frames[i].Timestamp
                     /\ kfs[k].Path = frames[i].Path

\* C5 witness: the last frame scores below t, so it is selected in the loop
\* and must not be added a second time.
C5_Witness ==
    \E t \in DOMAIN runs :
        /\ NFrames >= 2 /\ AllFramesLoad
        /\ AdjacentBelow(NFrames, t)
        /\ runs[t].err = NoError
        /\ runs[t].keyframes[Len(runs[t].keyframes)].Index = frames[NFrames].Index

\* C18: scoring of all adjacent pairs has completed before any selection
\* decision is made: in the order DetectKeyframes works in, no decision on a
\* frame comes before the scoring of a later pair.  (The other two parts of
\* the claim, sampling before scoring and selection before materialization,
\* are the order of the stages of run.)
ScoringBeforeSelection(events) ==
    \A a, b \in 1..Len(events) :
        (events[a].op = "decide" /\ events[b].op = "score") => b < a
C18_ScoringCompleteBeforeSelection ==
    \A t \in DOMAIN runs : ScoringBeforeSelection(DetectEvents(frames, t, files, fpu))

\* C22: when DetectKeyframes fails on a frame, the number its error reports
\* is the Index of the failing frame, the first one that does not load.
FirstNotLoading ==
    CHOOSE p \in 1..NFrames :
        /\ ~files[frames[p].Path].decodes
        /\ \A q \in 1..(p - 1) : files[frames[q].Path].decodes
C22_ErrorNamesFailingIndex ==
    \A t \in DOMAIN runs :
        runs[t].err.num # <<>> => runs[t].err.num = <<frames[FirstNotLoading].Index>>

----------------------------------------------------------------------------
(* Properties of normalizedCrossCorrelation (checked under SpecScore) *)

Scored == sc.got # <<>>
Score == sc.got[1]
IsConstant(v) == \A i, k \in 1..Len(v) : v[i] = v[k]
Comparable == Len(sc.a) = Len(sc.b) /\ Len(sc.a) > 0

\* C23: normalizedCrossCorrelation returns exactly 0 when the vectors are
\* empty or differ in length, and exactly 1.0 when both have one length, are
\* not empty and are constant, whatever the two constants are.
C23_DegenerateScores ==
    Scored =>
        /\ ~Comparable => Score = ScoreZero
        /\ (Comparable /\ IsConstant(sc.a) /\ IsConstant(sc.b)) => Score = ScoreOne
\* C23 witness: two constant vectors of two values with different constants,
\* scored 1.0.
C23_Witness ==
    /\ Scored /\ Score = ScoreOne
    /\ Len(sc.a) = 2 /\ Len(sc.b) = 2
    /\ IsConstant(sc.a) /\ IsConstant(sc.b) /\ sc.a[1] # sc.b[1]

\* C28: the score is 1.0 by the flat-vector rule only when both vectors are
\* constant: when exactly one of two vectors of one length is constant and
\* the other is not, the score is not 1.0.
ScoreIsOne(score) ==
    score.num > 0 /\ score.num * score.num = score.den2 /\ score.round = 0
ExactlyOneFlat == IsConstant(sc.a) # IsConstant(sc.b)
C28_FlatRuleNeedsBothFlat ==
    (Scored /\ Comparable /\ ExactlyOneFlat) => ~ScoreIsOne(Score)

----------------------------------------------------------------------------
(* Properties of runWhisper and parseWhisperOutput (checked under SpecWhisper) *)

Returned == wOut # <<>>
Result == wOut[1]
RecognizerSucceeded == wIn.fault = "none" /\ wIn.exit = 0

\* The segment a printed line stands for, from its description
ExpectedOfLine(d) ==
    IF d.kind = "utterance" /\ d.core # <<>>
    THEN <<[Start |-> StampMillis(d.start), End |-> StampMillis(d.end), Text |-> d.core]>>
    ELSE <<>>
RECURSIVE ExpectedSegments(_)
ExpectedSegments(script) ==
    IF script = <<>> THEN <<>>
    ELSE ExpectedOfLine(script[1]) \o ExpectedSegments(Tail(script))

\* C6: the segments runWhisper returns have non-decreasing start times, and
\* every segment ends no earlier than it starts.
C6_SegmentsOrdered ==
    Returned =>
        LET segs == Result.segments
        IN /\ \A i, j \in 1..Len(segs) : i < j => segs[i].Start <= segs[j].Start
           /\ \A i \in 1..Len(segs) : segs[i].End >= segs[i].Start

\* C8: parseWhisperOutput returns, in line order, one segment for each line
\* holding "[HH:MM:SS.mmm --> HH:MM:SS.mmm] text" with non-blank text, with
\* start and end h*3600 s + m*60 s + s + ms and the trimmed text; other lines
\* give no segment.
C8_ParsesTimestampedLines ==
    (Returned /\ RecognizerSucceeded) => Result.parsed = ExpectedSegments(wIn.script)

\* C8 witness: three printed lines, one that does not match the pattern, one
\* with hours and minutes in its start, parsed to fewer segments than lines.
C8_Witness ==
    /\ Returned /\ RecognizerSucceeded
    /\ Len(wIn.script) = 3
    /\ \E i, j \in 1..3 :
          /\ wIn.script[i].kind = "other"
          /\ wIn.script[j].kind = "utterance" /\ wIn.script[j].start.m > 0
    /\ Len(Result.parsed) \in 1..2

\* C9: when the recognizer exits with status 0 there is no error; if no
\* timestamped segment was parsed and the output file holds text, the result
\* is one segment starting at 0 with that text; if it holds no usable text
\* (missing, empty or blank), the result is the empty list.
UsableFileText ==
    IF wIn.file.readable THEN TrimSpace(wIn.file.bytes) ELSE <<>>
C9_FallbackOrEmpty ==
    (Returned /\ RecognizerSucceeded) =>
        /\ Result.err = "nil"
        /\ (Result.parsed = <<>> /\ UsableFileText # <<>>) =>
              /\ Len(Result.segments) = 1
              /\ Result.segments[1].Start = 0
              /\ Result.segments[1].Text = UsableFileText
        /\ (Result.parsed = <<>> /\ UsableFileText = <<>>) => Result.segments = <<>>

\* C11: when the model file does not exist, TranscribeAudio and Transcribe
\* both fail with the model-not-found error, having created no temporary file
\* and started no subprocess.
FailsModelNotFound(got) ==
    got.err = "whisper model not found" /\ ~got.tempCreated /\ ~got.spawned
C11_ModelMissingFailsFirst ==
    (Returned /\ ~ModelExists(wIn)) =>
        /\ FailsModelNotFound(Result)
        /\ \A af \in AudioFaults : FailsModelNotFound(Transcribe(wIn, af))

\* C10: every segment TranscribeAudio returns has non-empty text.
C10_TextNonEmpty ==
    Returned => \A i \in 1..Len(Result.segments) : Result.segments[i].Text # <<>>

----------------------------------------------------------------------------
(* Properties of run (checked under Spec) *)

RunFailed == runErr \notin {"running", "nil"}
\* The stage a returned error names; none for the checks before the stages
StageOfError ==
    [e \in {"frame extraction failed", "keyframe detection failed",
            "failed to save keyframes", "failed to download model",
            "audio extraction failed", "transcription failed",
            "failed to write output"} |->
        CASE e = "frame extraction failed" -> "ExtractFrames"
          [] e = "keyframe detection failed" -> "DetectKeyframes"
          [] e = "failed to save keyframes" -> "SaveKeyframes"
          [] e = "failed to download model" -> "DownloadModel"
          [] e = "audio extraction failed" -> "ExtractAudioTrack"
          [] e = "transcription failed" -> "TranscribeAudio"
          [] e = "failed to write output" -> "WriteMarkdown"]
NoStageTwice == \A i, j \in 1..Len(stages) : i < j => stages[i] # stages[j]
\* The run has ended, and the last stage started is the one whose error it
\* returned.
StoppedAtFailingStage ==
    /\ pc = "done"
    /\ IF runErr \in DOMAIN StageOfError
       THEN stages # <<>> /\ stages[Len(stages)] = StageOfError[runErr]
       ELSE stages = <<>>

\* C17: when any stage returns an error, the run ends there with that error
\* and no report document has been written; no stage is started twice.
C17_NoReportOnAnyFailure ==
    /\ NoStageTwice
    /\ RunFailed => (StoppedAtFailingStage /\ report = <<>>)

\* C7: when a run ends, a frame scratch directory it created has been
\* deleted, whether the run succeeded or failed.
C7_ScratchReclaimed == pc = "done" => scratch \in {"none", "removed"}

\* C19: a run given a threshold t <= 0 or t >= 1 is rejected with an error
\* before any frame is scored or selected: with such a threshold
\* DetectKeyframes is never started.
OutOfRange(t) == t <= 0 \/ t >= 1000
C19_ThresholdRangeEnforced ==
    OutOfRange(opts.threshold) =>
        \A k \in 1..Len(stages) : stages[k] # "DetectKeyframes"

\* C20: ExtractFrames returns an error and no frames when the decoder
\* fails to start, exits non-zero or produces zero frames, and on each of
\* these paths the scratch directory it created has been removed when it
\* returns; on success the returned list is non-empty and the scratch
\* directory still exists.  Stated of every world ExtractFrames can meet, and
\* of the run that has called it.
DecoderFailed(world) ==
    \/ world.fault \in {"start", "wait"}
    \/ world.fault = "none" /\ DOMAIN world.produced = {}
ExtractFramesAsClaimed(world) ==
    LET got == ExtractFrames(world)
    IN /\ DecoderFailed(world) =>
              got.err # NoError /\ got.frames = <<>> /\ got.scratch = "removed"
       /\ got.err = NoError => Len(got.frames) > 0 /\ got.scratch = "exists"
       /\ got.err # NoError => got.frames = <<>> /\ got.scratch # "exists"
ExtractFramesCalled == \E k \in 1..Len(stages) : stages[k] = "ExtractFrames"
C20_ExtractFramesOutcomes ==
    /\ \A world \in ExtractWorlds : ExtractFramesAsClaimed(world)
    /\ ExtractFramesCalled =>
           IF runErr = "frame extraction failed"
           THEN frames = <<>> /\ scratch # "exists"
           ELSE Len(frames) > 0 /\ scratch = "exists"
\* C20 witness: a run whose ExtractFrames failed after making its directory:
\* the run is over, no frames, the directory removed.
C20_Witness ==
    /\ pc = "done" /\ runErr = "frame extraction failed"
    /\ stages = <<"ExtractFrames">> /\ frames = <<>> /\ scratch = "removed"

\* C21: SaveKeyframes works through the keyframes in list order and stops
\* at the first one that fails: it returns an error, saveKeyframe is called
\* for no keyframe after it, and the files written for the keyframes before
\* it stay in the output directory.  Stated of the keyframes of the run with
\* every fault, and of the run whose SaveKeyframes failed.
FailsAt(p, fault) ==
    \/ ~files[keyframes[p].Path].decodes
    \/ fault.at = p
IndicesUpTo(n) == {keyframes[k].Index : k \in 1..n}
SaveKeyframesAsClaimed(fault) ==
    LET got == SaveKeyframes(keyframes, files, {}, fault)
        failing == {p \in 1..Len(keyframes) : FailsAt(p, fault)}
    IN IF failing = {}
       THEN /\ got.err = NoError
            /\ got.tried = [k \in 1..Len(keyframes) |-> keyframes[k].Index]
            /\ got.names = IndicesUpTo(Len(keyframes))
       ELSE LET first == CHOOSE p \in failing : \A q \in failing : p <= q
            IN /\ got.err # NoError
               /\ got.tried = [k \in 1..first |-> keyframes[k].Index]
               /\ IndicesUpTo(first - 1) \subseteq got.names
               /\ got.names \subseteq IndicesUpTo(first)
C21_SaveStopsAtFirstFailure ==
    /\ \A fault \in SaveFaults(keyframes) : SaveKeyframesAsClaimed(fault)
    /\ runErr = "failed to save keyframes" =>
           \E n \in 0..Len(keyframes) : outDir.names = IndicesUpTo(n)
\* C21 witness: a run whose SaveKeyframes failed at its second keyframe
\* before the file was made; the first keyframe's file is there, alone.
C21_Witness ==
    /\ runErr = "failed to save keyframes"
    /\ Len(keyframes) >= 2
    /\ outDir.names = {keyframes[1].Index}

\* C25: with --no-frames run starts none of ExtractFrames, DetectKeyframes,
\* SaveKeyframes and does not create the frames directory, and the report has
\* 0 total frames and no keyframes; with --no-transcript it starts none of
\* the model download, the audio extraction and the recognizer, and the
\* report has no segments; the report is written in both cases: a run
\* without an error of a stage that is not skipped starts WriteMarkdown.
Started(stage) == \E k \in 1..Len(stages) : stages[k] = stage
FrameStages == {"ExtractFrames", "DetectKeyframes", "SaveKeyframes"}
AudioStages == {"DownloadModel", "ExtractAudioTrack", "TranscribeAudio"}
FrameErrors ==
    {"failed to create frames directory", "frame extraction failed",
     "keyframe detection failed", "failed to save keyframes"}
AudioErrors ==
    {"failed to download model", "audio extraction failed", "transcription failed"}
ReportWritten == report # <<>> /\ report[1] # TruncatedReport
C25_SkipFlags ==
    /\ opts.noFrames =>
           /\ \A stage \in FrameStages : ~Started(stage)
           /\ ~outDir.made /\ outDir.names = {}
           /\ runErr \notin FrameErrors
           /\ ReportWritten => report[1].TotalFrames = 0 /\ report[1].Keyframes = <<>>
    /\ opts.noTranscript =>
           /\ \A stage \in AudioStages : ~Started(stage)
           /\ runErr \notin AudioErrors
           /\ ReportWritten => report[1].Segments = <<>>
    /\ (pc = "done" /\ ~Started("WriteMarkdown")) =>
           runErr \in FrameErrors \cup AudioErrors \cup {"input file does not exist"}
\* C25 witness: a run with --no-frames and without --no-transcript that
\* ended with a report holding segments, the audio stages and the report
\* being all it started.
C25_Witness ==
    /\ pc = "done" /\ runErr = "nil"
    /\ opts.noFrames /\ ~opts.noTranscript
    /\ stages = <<"ExtractAudioTrack", "TranscribeAudio", "WriteMarkdown">>
    /\ ReportWritten /\ report[1].Segments # <<>>

\* C26: SaveKeyframes never overwrites or truncates a file that is already
\* in the output directory: no file the run has opened with os.Create has
\* the name of a file that was there when the run started.
C26_CreateNewOnly == outDir.names \cap outDir.old = {}

----------------------------------------------------------------------------
(* Properties of WriteMarkdown and EstimateTokens (checked under SpecReport) *)

Written == md.err \in {<<"nil">>, <<"close failed">>}
ReportLines == Split(md.file[1], "\n")
HeaderAt(lines, header) == {i \in 1..Len(lines) : lines[i] = header}
\* The line of a segment and the heading of a keyframe
SegmentLine(seg) ==
    <<"[">> \o formatDuration(seg.Start) \o <<"]", " ">> \o TrimSpace(seg.Text)
KeyframeHeading(kf) ==
    FrameHeading \o Itoa(kf.Index) \o <<" ", "(">> \o formatDuration(kf.Timestamp) \o <<")">>
IsHeading(line) ==
    Len(line) >= Len(FrameHeading) /\ SubSeq(line, 1, Len(FrameHeading)) = FrameHeading
\* The transcript block: one header line, an empty line, then exactly one
\* line for each segment, in order, and an empty line.
TranscriptBlockOk(lines) ==
    LET segs == md.result.Segments
        hs == HeaderAt(lines, TranscriptHeader)
    IN /\ Cardinality(hs) = 1
       /\ LET h == CHOOSE i \in hs : TRUE
          IN /\ Len(lines) >= h + Len(segs) + 2
             /\ lines[h + 1] = <<>>
             /\ \A i \in 1..Len(segs) : lines[h + 1 + i] = SegmentLine(segs[i])
             /\ lines[h + Len(segs) + 2] = <<>>
\* The keyframes block: one header line, and the headings in the report are
\* exactly one for each keyframe, in order.
KeyframesBlockOk(lines) ==
    LET kfs == md.result.Keyframes
        hs == HeaderAt(lines, KeyframesHeader)
        at == SetToSortedSeq({i \in 1..Len(lines) : IsHeading(lines[i])})
    IN /\ Cardinality(hs) = 1
       /\ Len(at) = Len(kfs)
       /\ \A i \in 1..Len(kfs) :
             /\ lines[at[i]] = KeyframeHeading(kfs[i])
             /\ at[i] > CHOOSE h \in hs : TRUE
BlocksAsClaimed ==
    LET lines == ReportLines
    IN /\ IF md.result.Segments = <<>> THEN HeaderAt(lines, TranscriptHeader) = {}
          ELSE TranscriptBlockOk(lines)
       /\ IF md.result.Keyframes = <<>> THEN HeaderAt(lines, KeyframesHeader) = {}
          ELSE KeyframesBlockOk(lines)
OneLineTexts ==
    \A i \in 1..Len(md.result.Segments) :
        \A k \in 1..Len(TrimSpace(md.result.Segments[i].Text)) :
            TrimSpace(md.result.Segments[i].Text)[k] # "\n"

\* C12 (as stated): the written report has the transcript header iff there
\* is a segment and the keyframes header iff there is a keyframe, and a
\* block that is present has exactly one line or heading for each segment or
\* keyframe, in order.
C12_BlocksForAnyResult == Written => BlocksAsClaimed

\* What WriteMarkdown does keep of C12: the same, for results in which no
\* segment's trimmed text holds a line break.
C12_BlocksForOneLineTexts == (Written /\ OneLineTexts) => BlocksAsClaimed

\* C12 witness: a report written for two keyframes and no segment, and so
\* with the keyframes block and without the transcript header.
C12_Witness ==
    /\ Written
    /\ md.result.Segments = <<>> /\ Len(md.result.Keyframes) = 2
    /\ HeaderAt(ReportLines, TranscriptHeader) = {}
    /\ HeaderAt(ReportLines, KeyframesHeader) # {}

\* C13: the estimate is at least 100; with any segment appended it is not
\* smaller, and with any keyframe appended it is larger by exactly 1000.
Estimated == md.est # <<>>
C13_CostMonotone ==
    Estimated =>
        /\ md.est[1] >= 100
        /\ \A seg \in ReportSegments :
              EstimateTokens([md.result EXCEPT !.Segments = Append(@, seg)]) >= md.est[1]
        /\ \A kf \in ReportKeyframes :
              EstimateTokens([md.result EXCEPT !.Keyframes = Append(@, kf)])
                  = md.est[1] + 1000

\* C13 witness: the estimate of a result with a three-word segment and one
\* keyframe: 100 + 3 + 1000.
C13_Witness ==
    /\ Estimated
    /\ Len(md.result.Segments) = 1 /\ WordCount(md.result.Segments[1].Text) = 3
    /\ Len(md.result.Keyframes) = 1
    /\ md.est[1] = 1103

\* C24: a non-negative duration of whole seconds is rendered M:SS (minutes
\* unpadded, seconds two digits) under one hour and H:MM:SS from one hour on,
\* with H*3600 + M*60 + S the seconds and M, S < 60 in the hour form; every
\* transcript line and keyframe heading of the report carries its time in
\* this format.
Digits(field) == field # <<>> /\ \A i \in 1..Len(field) : IsDigit(field[i])
Unpadded(field) == Digits(field) /\ (Len(field) = 1 \/ field[1] # "0")
TwoDigitField(field) == Digits(field) /\ Len(field) = 2
ClockOk(total, text) ==
    LET fields == Split(text, ":")
    IN IF total < 3600
       THEN /\ Len(fields) = 2
            /\ Unpadded(fields[1]) /\ TwoDigitField(fields[2])
            /\ DecimalValue(fields[2]) < 60
            /\ DecimalValue(fields[1]) * 60 + DecimalValue(fields[2]) = total
       ELSE /\ Len(fields) = 3
            /\ Unpadded(fields[1]) /\ TwoDigitField(fields[2]) /\ TwoDigitField(fields[3])
            /\ DecimalValue(fields[2]) < 60 /\ DecimalValue(fields[3]) < 60
            /\ DecimalValue(fields[1]) * 3600 + DecimalValue(fields[2]) * 60
                   + DecimalValue(fields[3]) = total
\* Whole seconds round both borders: of the minute, of ten minutes, of the
\* hour, of ten hours
WholeSeconds == {0, 5, 59, 60, 61, 599, 600, 725, 3599, 3600, 3661, 35999, 36000, 45296}
RoundedSeconds(d) == (d + 500) \div Second
\* The text between the first open and the first close after it
Between(line, open, close) ==
    LET from == CHOOSE i \in 1..Len(line) :
                    line[i] = open /\ \A k \in 1..(i - 1) : line[k] # open
        to == CHOOSE i \in (from + 1)..Len(line) :
                    line[i] = close /\ \A k \in (from + 1)..(i - 1) : line[k] # close
    IN SubSeq(line, from + 1, to - 1)
StampedLines(lines) == SelectSeq(lines, LAMBDA l : Len(l) > 0 /\ l[1] = "[")
HeadingLines(lines) == SelectSeq(lines, IsHeading)
ReportClocksOk(lines) ==
    LET segs == md.result.Segments
        kfs == md.result.Keyframes
        stamped == StampedLines(lines)
        headings == HeadingLines(lines)
    IN /\ Len(stamped) = Len(segs)
       /\ \A k \in 1..Len(segs) :
              ClockOk(RoundedSeconds(segs[k].Start), Between(stamped[k], "[", "]"))
       /\ Len(headings) = Len(kfs)
       /\ \A k \in 1..Len(kfs) :
              ClockOk(RoundedSeconds(kfs[k].Timestamp), Between(headings[k], "(", ")"))
C24_ClockFormat ==
    /\ \A total \in WholeSeconds : ClockOk(total, formatDuration(total * Second))
    /\ Written => ReportClocksOk(ReportLines)
\* C24 witness: a written report with a transcript line stamped 12:05 and a
\* keyframe heading stamped 1:01:01.
C24_Witness ==
    /\ Written
    /\ \E k \in 1..Len(md.result.Segments) : md.result.Segments[k].Start = 725000
    /\ \E k \in 1..Len(md.result.Keyframes) : md.result.Keyframes[k].Timestamp = 3661000
    /\ \E i \in 1..Len(ReportLines) :
           /\ IsHeading(ReportLines[i])
           /\ Between(ReportLines[i], "(", ")") = <<"1", ":", "0", "1", ":", "0", "1">>
    /\ \E i \in 1..Len(ReportLines) :
           /\ Len(ReportLines[i]) > 6
           /\ SubSeq(ReportLines[i], 1, 7) = <<"[", "1", "2", ":", "0", "5", "]">>

----------------------------------------------------------------------------
(* Properties of downloadModel (checked under SpecDownload) *)

\* C14: at every moment of any number of executions of downloadModel on one
\* model path, the model path has no file or a completely written one, and a
\* download that has failed has left no temporary file of its own.
C14_ModelNeverPartial ==
    /\ dl.model # <<>> => Complete(dl.model[1])
    /\ \A p \in Downloads :
          (dl.procs[p].pc = "done" /\ dl.procs[p].err # "nil") =>
              \A n \in DOMAIN dl.temps : dl.temps[n] # p

----------------------------------------------------------------------------
(* Properties of one extraction (checked under SpecExtract and, for what   *)
(* must eventually happen, under SpecExtractFair)                          *)

InUnitInterval(v) == ~IsNegative(v.num) /\ ~Less(v.den, v.num)

\* C15: every value the progress callback is called with lies in [0, 1].
C15_ProgressInUnitInterval ==
    \A i \in 1..Len(ext.calls) : InUnitInterval(ext.calls[i])

\* C16: with an unknown duration (0) the callback is never called, and an
\* extraction whose decoder starts and would exit with status 0 eventually
\* returns without error.
C16_UnknownDurationStillReturns ==
    /\ [](ext.duration = 0 => ext.calls = <<>>)
    /\ (ext.duration = 0 /\ ext.fault = "none" /\ ext.exitOk)
           ~> (ext.pc = "done" /\ ext.err = "nil")

\* C27: for as long as the decoder runs, a background reader drains its
\* stdout pipe, whether or not there is a callback and whatever the duration.
C27_ReaderWhileDecoderRuns == ext.decoder = "running" => ext.reader = "running"

\* C30: no progress callback is made after the function has returned.
C30_NoCallbackAfterReturn == ext.late = 0

----------------------------------------------------------------------------
(* Properties of Step (checked under SpecStep) *)

Terminal == st.complete \/ st.failed
StepFields(s) == <<s.percent, s.complete, s.failed, s.rendered>>
StepStateOk ==
    /\ st.complete => st.percent = 1000
    /\ st.completes + st.errors <= 1
    /\ st.stage = "returned" => st.completes + st.errors = 1
    /\ st.complete = (st.completes = 1) /\ st.failed = (st.errors = 1)
\* C29: once Complete or Error has been called, every later Update, from
\* the foreground or from a reader goroutine, leaves percent, complete and
\* failed as they are and renders nothing; Complete sets percent to 1.0; a
\* Step of run gets exactly one of Complete and Error, never both.
C29_TerminalSticky ==
    /\ []StepStateOk
    /\ [][Terminal => StepFields(st') = StepFields(st)]_vars
\* C29 witness: a Step that was updated to 50%, completed, and then given
\* an Update by a reader goroutine: it shows 100% and two renderings.
C29_Witness ==
    /\ st.complete /\ st.late = 1 /\ st.updates = 2
    /\ st.percent = 1000 /\ st.rendered = <<0, 500>>

----------------------------------------------------------------------------
(* Specifications *)

WhisperIdle == wIn = "idle" /\ wOut = "idle"
RunIdle ==
    /\ pc = "idle" /\ opts = "idle" /\ duration = 0 /\ scratch = "idle"
    /\ keyframes = "idle" /\ segments = "idle" /\ outDir = "idle"
    /\ report = "idle" /\ stages = "idle" /\ runErr = "idle"

MoreIdle == sc = "idle" /\ st = "idle"
OtherIdle == ext = "idle" /\ dl = "idle" /\ md = "idle" /\ MoreIdle

SpecDetectInit == DetectInit /\ WhisperIdle /\ RunIdle /\ OtherIdle
SpecDetectNext ==
    \E t \in Thresholds :
        CallDetectKeyframes(t) /\ UNCHANGED <<whisperVars, runVars, otherVars>>
SpecDetect == SpecDetectInit /\ [][SpecDetectNext]_vars

DetectIdle == frames = "idle" /\ files = "idle" /\ runs = "idle" /\ fpu = "idle"

\* One run of the memorex command
Init == RunInit /\ runs = "idle" /\ fpu = "idle" /\ WhisperIdle /\ OtherIdle
Next == RunNext
Spec == Init /\ [][Next]_vars

ExtractIdle == dl = "idle" /\ md = "idle" /\ MoreIdle
SpecExtractInit == ExtractInit /\ DetectIdle /\ WhisperIdle /\ RunIdle /\ ExtractIdle
ExtractRest == UNCHANGED <<detectVars, whisperVars, runVars, dl, md, moreVars>>
SpecExtractNext ==
    \/ ExtStart /\ ExtractRest
    \/ DecoderWrite /\ ExtractRest
    \/ DecoderExit /\ ExtractRest
    \/ ReaderFill /\ ExtractRest
    \/ ReaderScan /\ ExtractRest
    \/ ReaderEnd /\ ExtractRest
    \/ ExtWait /\ ExtractRest
SpecExtract == SpecExtractInit /\ [][SpecExtractNext]_vars
\* The operating system runs the decoder process, and the Go scheduler the
\* calling goroutine and the reader goroutine, whenever they can take a step.
SpecExtractFair ==
    /\ SpecExtract
    /\ WF_vars(ExtStart /\ ExtractRest)
    /\ WF_vars(DecoderWrite /\ ExtractRest)
    /\ WF_vars(DecoderExit /\ ExtractRest)
    /\ WF_vars(ReaderFill /\ ExtractRest)
    /\ WF_vars(ReaderScan /\ ExtractRest)
    /\ WF_vars(ReaderEnd /\ ExtractRest)
    /\ WF_vars(ExtWait /\ ExtractRest)

DownloadIdle == ext = "idle" /\ md = "idle" /\ MoreIdle
SpecDownloadInit == DownloadInit /\ DetectIdle /\ WhisperIdle /\ RunIdle /\ DownloadIdle
SpecDownloadNext ==
    \E p \in Downloads :
        \/ DlStart(p) /\ UNCHANGED <<detectVars, whisperVars, runVars, ext, md, moreVars>>
        \/ DlCreateTemp(p) /\ UNCHANGED <<detectVars, whisperVars, runVars, ext, md, moreVars>>
        \/ DlCopy(p) /\ UNCHANGED <<detectVars, whisperVars, runVars, ext, md, moreVars>>
        \/ DlClose(p) /\ UNCHANGED <<detectVars, whisperVars, runVars, ext, md, moreVars>>
        \/ DlRename(p) /\ UNCHANGED <<detectVars, whisperVars, runVars, ext, md, moreVars>>
        \/ DlDeferred(p) /\ UNCHANGED <<detectVars, whisperVars, runVars, ext, md, moreVars>>
SpecDownload == SpecDownloadInit /\ [][SpecDownloadNext]_vars

\* One Step, the stage it shows and the reader goroutines of the stage
StepIdle == ext = "idle" /\ dl = "idle" /\ md = "idle" /\ sc = "idle"
StepRest == UNCHANGED <<detectVars, whisperVars, runVars, ext, dl, md, sc>>
SpecStepInit == StepInit /\ DetectIdle /\ WhisperIdle /\ RunIdle /\ StepIdle
SpecStepNext ==
    \/ \E caller \in {"stage", "reader"}, percent \in StepPercents :
           StepUpdate(caller, percent) /\ StepRest
    \/ StepComplete /\ StepRest
    \/ StepError /\ StepRest
SpecStep == SpecStepInit /\ [][SpecStepNext]_vars

\* normalizedCrossCorrelation on its own
ScoreIdle == ext = "idle" /\ dl = "idle" /\ md = "idle" /\ st = "idle"
SpecScoreInit == ScoreInit /\ DetectIdle /\ WhisperIdle /\ RunIdle /\ ScoreIdle
SpecScoreNext ==
    CallNormalizedCrossCorrelation
        /\ UNCHANGED <<detectVars, whisperVars, runVars, ext, dl, md, st>>
SpecScore == SpecScoreInit /\ [][SpecScoreNext]_vars

ReportIdle == ext = "idle" /\ dl = "idle" /\ MoreIdle
SpecReportInit == ReportInit /\ DetectIdle /\ WhisperIdle /\ RunIdle /\ ReportIdle
SpecReportNext ==
    \/ CallWriteMarkdown /\ UNCHANGED <<detectVars, whisperVars, runVars, ext, dl, moreVars>>
    \/ CallEstimateTokens /\ UNCHANGED <<detectVars, whisperVars, runVars, ext, dl, moreVars>>
SpecReport == SpecReportInit /\ [][SpecReportNext]_vars

SpecWhisperInit == WhisperInit /\ DetectIdle /\ RunIdle /\ OtherIdle
SpecWhisperNext == CallTranscribeAudio /\ UNCHANGED <<detectVars, runVars, otherVars>>
SpecWhisper == SpecWhisperInit /\ [][SpecWhisperNext]_vars

====
